---- MODULE Spec2Model ----
(***************************************************************************)
(* A model of sqlfluff's linter module (src/sqlfluff/linter.py):           *)
(*   - LintedFile.fix_string, the three-way merge of the raw, templated    *)
(*     and fixed text of a file, and LintedFile.persist_tree;              *)
(*   - the fix loop of Linter.lint_string and the violations it returns;   *)
(*   - LintedFile.get_violations, the filters and the ignore mask;         *)
(*   - LintedPath.persist_changes over the files of a path;                *)
(*   - LintingResult.stats and LintingResult.as_records;                   *)
(*   - Linter.lint_string on a file that did not parse, and the noqa       *)
(*     comments read by Linter.extract_ignore_from_comment;                *)
(*   - Linter.paths_from_path, the walk of a path and the ignore files.    *)
(* Texts are sequences of one-character strings.  Offsets are Python's     *)
(* (0-based, end-exclusive); an opcode is the 5-tuple                      *)
(* <<tag, ia1, ia2, ib1, ib2>> of difflib, so that Python's block[k] is    *)
(* block[k+1] here.                                                        *)
(***************************************************************************)
EXTENDS Integers, Sequences, FiniteSets, TLC

(***************************************************************************)
(* Bounds of the model.                                                    *)
(***************************************************************************)
\* longest raw, templated and fixed text
MaxLen == 3
\* the characters of the texts, and those of the wider specification
Alphabet == {"a", "b"}
WideAlphabet == {"a", "b", "c"}
\* number of serialized texts a tree can take in the fix loop
NumTrees == 3
\* number of rules (crawlers) of the rule set
NumRules == 2
\* number of distinct fix proposals of the rules
NumFixes == 2
\* passes of the fix loop the model follows; the loop itself ends earlier
MaxPasses == NumTrees + 2
\* the bounds MaxViolations (longest list of violations of a file) and
\* NumFiles (most files of a path) stand with the definitions they bound

\* Python's None: a file-mask element that is absent, a block not fetched
None == <<"None">>

Min(x, y) == IF x <= y THEN x ELSE y

\* the texts over the characters chars of length at most n
Texts(chars, n) == UNION {[1..k -> chars] : k \in 0..n}

\* Python's s[i:j] for 0 <= i, 0 <= j
Slice(s, i, j) ==
    LET lo == Min(i, Len(s))
        hi == Min(j, Len(s))
    IN  IF lo >= hi THEN <<>> ELSE SubSeq(s, lo + 1, hi)

\* the fields of an opcode
Tag(block) == block[1]

(***************************************************************************)
(* difflib.SequenceMatcher(autojunk=None, a=a, b=b).get_opcodes(), with no *)
(* junk: find_longest_match, get_matching_blocks, get_opcodes.             *)
(***************************************************************************)
\* length of the common run of a[i:ahi] and b[j:bhi]
RECURSIVE RunLen(_, _, _, _, _, _)
RunLen(a, b, i, j, ahi, bhi) ==
    IF i < ahi /\ j < bhi /\ a[i + 1] = b[j + 1]
    THEN 1 + RunLen(a, b, i + 1, j + 1, ahi, bhi)
    ELSE 0

\* the longest matching block <<i, j, k>> of a[alo:ahi] and b[blo:bhi]; of
\* the longest ones the one that starts earliest in a, then earliest in b
FindLongestMatch(a, b, alo, ahi, blo, bhi) ==
    LET Cands == {<<i, j, RunLen(a, b, i, j, ahi, bhi)>> :
                      i \in alo..(ahi - 1), j \in blo..(bhi - 1)}
        Best  == {c \in Cands : c[3] > 0 /\ \A d \in Cands : d[3] <= c[3]}
    IN  IF Best = {} THEN <<alo, blo, 0>>
        ELSE CHOOSE c \in Best : \A d \in Best :
                 c[1] < d[1] \/ (c[1] = d[1] /\ c[2] <= d[2])

\* the matching blocks of a[alo:ahi] and b[blo:bhi], in increasing order
RECURSIVE MatchingBlocks(_, _, _, _, _, _)
MatchingBlocks(a, b, alo, ahi, blo, bhi) ==
    LET m == FindLongestMatch(a, b, alo, ahi, blo, bhi)
        i == m[1]
        j == m[2]
        k == m[3]
    IN  IF k = 0 THEN <<>>
        ELSE (IF alo < i /\ blo < j
              THEN MatchingBlocks(a, b, alo, i, blo, j) ELSE <<>>)
             \o <<m>>
             \o (IF i + k < ahi /\ j + k < bhi
                 THEN MatchingBlocks(a, b, i + k, ahi, j + k, bhi) ELSE <<>>)

\* adjacent matching blocks are collapsed into one
RECURSIVE Collapse(_, _)
Collapse(blocks, cur) ==
    IF blocks = <<>> THEN (IF cur[3] > 0 THEN <<cur>> ELSE <<>>)
    ELSE LET nxt == Head(blocks)
         IN  IF cur[1] + cur[3] = nxt[1] /\ cur[2] + cur[3] = nxt[2]
             THEN Collapse(Tail(blocks), <<cur[1], cur[2], cur[3] + nxt[3]>>)
             ELSE (IF cur[3] > 0 THEN <<cur>> ELSE <<>>)
                  \o Collapse(Tail(blocks), nxt)

get_matching_blocks(a, b) ==
    Collapse(MatchingBlocks(a, b, 0, Len(a), 0, Len(b)), <<0, 0, 0>>)
    \o << <<Len(a), Len(b), 0>> >>

\* the opcodes that turn a into b, from the matching blocks
RECURSIVE OpcodesFrom(_, _, _)
OpcodesFrom(blocks, i, j) ==
    IF blocks = <<>> THEN <<>>
    ELSE LET ai   == Head(blocks)[1]
             bj   == Head(blocks)[2]
             size == Head(blocks)[3]
             tag  == IF i < ai /\ j < bj THEN "replace"
                     ELSE IF i < ai THEN "delete"
                     ELSE IF j < bj THEN "insert"
                     ELSE ""
         IN  (IF tag # "" THEN << <<tag, i, ai, j, bj>> >> ELSE <<>>)
             \o (IF size > 0
                 THEN << <<"equal", ai, ai + size, bj, bj + size>> >>
                 ELSE <<>>)
             \o OpcodesFrom(Tail(blocks), ai + size, bj + size)

get_opcodes(a, b) == OpcodesFrom(get_matching_blocks(a, b), 0, 0)

(***************************************************************************)
(* The state.  file_mask, result and written belong to the LintedFile and  *)
(* its file on storage; the other variables are the locals of fix_string.  *)
(* applied, skipped and emitted are history variables: the fix blocks      *)
(* whose edit went into write_buff, the fix blocks reported by "WARNING:   *)
(* Skipping edit block", and the <<template block, text>> pairs written    *)
(* for the replace and delete blocks of the template.                      *)
(***************************************************************************)
VARIABLES pc, file_mask, diff_templ_codes, diff_fix_codes, templ_block,
          fixed_block, idx, write_buff, loop_idx, result, exc, written,
          applied, skipped, emitted

(***************************************************************************)
(* The locals of the fix loop of Linter.lint_string.  A tree is stood for  *)
(* by its serialized text (its raw), a number of 1..NumTrees; crawler is   *)
(* the position of the for loop in the rule list; passes counts the        *)
(* iterations of the while loop that have begun; fix is the argument of    *)
(* lint_string and parsed the tree it returns in the LintedFile; warnings   *)
(* counts the "One fix for ... not applied" warnings logged.               *)
(***************************************************************************)
VARIABLES fix, parsed, working, previous_versions, last_fixes, changed,
          crawler, passes, warnings

(***************************************************************************)
(* The violation lists of lint_string: vs is the list that goes into the   *)
(* LintedFile, linting_errors and initial_linting_errors are the two names *)
(* of lines 690-702, and aliased tells whether the two names are bound to  *)
(* the same list object, so that += on one is seen through the other.      *)
(***************************************************************************)
VARIABLES vs, linting_errors, initial_linting_errors, aliased

(***************************************************************************)
(* History of the fix loop: original is the tree and the violations that   *)
(* parse_string gave; trail is the sequence of texts the working tree has  *)
(* had; event and proposal are the outcome and the fixes of the latest     *)
(* crawl; pass_accepted is the latest proposal applied in the current      *)
(* pass, attempted the latest proposal handed to apply_fixes, and          *)
(* proposals the set of all proposals made (NoFixes included).             *)
(***************************************************************************)
VARIABLES original, trail, event, proposal, pass_accepted, attempted,
          proposals

lint_lists == <<vs, linting_errors, initial_linting_errors, aliased>>

lint_history == <<original, trail, event, proposal, pass_accepted, attempted,
                  proposals>>

lint_vars == <<fix, parsed, working, previous_versions, last_fixes, changed,
               crawler, passes, warnings, lint_lists, lint_history>>

(***************************************************************************)
(* A call of LintedFile.get_violations: violations and ignore_mask are the *)
(* fields of the LintedFile, kwargs the arguments of the call and selected *)
(* the list it returns.                                                    *)
(***************************************************************************)
VARIABLES violations, ignore_mask, kwargs, selected

filter_vars == <<violations, ignore_mask, kwargs, selected>>

(***************************************************************************)
(* A call of LintedPath.persist_changes: files is the list of LintedFiles, *)
(* file_no the position of its for loop (0 when no such call is under      *)
(* way), buffer the dict it returns, dispatched the calls of               *)
(* formatter.dispatch_persist_filename in order, and fixed_file_suffix its *)
(* argument.  path and suffix are self.path and the suffix of the call of  *)
(* persist_tree under way, and disk maps the names of the files on storage *)
(* to their content.                                                       *)
(***************************************************************************)
VARIABLES files, file_no, buffer, dispatched, fixed_file_suffix, path,
          suffix, disk

batch_vars == <<files, file_no, buffer, dispatched, fixed_file_suffix>>

(***************************************************************************)
(* A LintingResult: paths is its list of LintedPaths, each the list of its *)
(* LintedFiles (path, violations and ignore_mask of each); all_stats is    *)
(* the dict stats() returns and records the list as_records() returns.     *)
(***************************************************************************)
VARIABLES paths, all_stats, records

result_vars == <<paths, all_stats, records>>

(***************************************************************************)
(* The search of lint_string for ignore directives: comment is the text of *)
(* the inline comment at hand, as raw_trimmed() gives it, comment_no its   *)
(* position among the inline comments of the tree (and its line),          *)
(* ignore_entry what extract_ignore_from_comment returned for it and       *)
(* ignore_buff the list of mask entries so far.                            *)
(***************************************************************************)
VARIABLES comment, comment_no, ignore_entry, ignore_buff

ignore_vars == <<comment, comment_no, ignore_entry, ignore_buff>>

(***************************************************************************)
(* A call of Linter.paths_from_path.  ignore_specs is the storage as far   *)
(* as it varies: for each directory that holds an ignore file, the lines   *)
(* of that file.  walk_path, ignore_files, ignore_non_existent_files and   *)
(* sql_exts are the argument path, the two flags and self.sql_exts;        *)
(* is_exact_file, ignore_set, path_walk, walk_buffer (the local buffer)    *)
(* and filtered_buffer are its locals, path_walk being the set of the      *)
(* <<dirpath, fname>> pairs still to come and buffer_no the position of    *)
(* the second for loop; warned counts the warnings printed and found is    *)
(* the list returned.                                                      *)
(***************************************************************************)
VARIABLES ignore_specs, walk_path, ignore_files, ignore_non_existent_files,
          sql_exts, is_exact_file, ignore_set, path_walk, walk_buffer,
          buffer_no, filtered_buffer, warned, found

walk_args == <<ignore_specs, walk_path, ignore_files,
               ignore_non_existent_files, sql_exts>>

walk_vars == <<walk_args, is_exact_file, ignore_set, path_walk, walk_buffer,
               buffer_no, filtered_buffer, warned, found>>

\* what fix_string leaves alone besides its own locals
outer_vars == <<lint_vars, filter_vars, batch_vars, path, suffix, disk,
                result_vars, ignore_vars, walk_vars>>

vars == <<pc, file_mask, diff_templ_codes, diff_fix_codes, templ_block,
          fixed_block, idx, write_buff, loop_idx, result, exc, written,
          applied, skipped, emitted, lint_vars, filter_vars, batch_vars,
          path, suffix, disk, result_vars, ignore_vars, walk_vars>>

locals == <<diff_templ_codes, diff_fix_codes, templ_block, fixed_block, idx,
            write_buff, loop_idx>>

history == <<applied, skipped, emitted>>

raw_file == file_mask[1]
templated_file == file_mask[2]
fixed_file == file_mask[3]

\* the paths of the files, as strings of characters
Paths == << <<"f", ".", "s">>, <<"d", ".", "r", "/", "f">>, <<".", "s">>,
            <<"f">> >>

\* get_violations(rules=None, types=None, filter_ignore=True, fixable=None)
DefaultKwargs ==
    [rules |-> {}, types |-> {}, filter_ignore |-> TRUE, fixable |-> "None"]

\* no LintingResult
IdleResult ==
    /\ paths = <<>>
    /\ all_stats = <<>>
    /\ records = <<>>

\* no call of paths_from_path
IdleWalk ==
    /\ ignore_specs = <<>>
    /\ walk_path = <<>>
    /\ ignore_files = TRUE
    /\ ignore_non_existent_files = FALSE
    /\ sql_exts = <<>>
    /\ is_exact_file = FALSE
    /\ ignore_set = {}
    /\ path_walk = {}
    /\ walk_buffer = <<>>
    /\ buffer_no = 0
    /\ filtered_buffer = <<>>
    /\ warned = 0
    /\ found = <<>>

\* no search for ignore directives
IdleIgnore ==
    /\ comment = <<>>
    /\ comment_no = 0
    /\ ignore_entry = None
    /\ ignore_buff = <<>>

\* no call of get_violations, no call of persist_changes, no LintingResult
\* and no search for ignore directives
NoCalls ==
    /\ violations = <<>>
    /\ ignore_mask = <<>>
    /\ kwargs = DefaultKwargs
    /\ selected = <<>>
    /\ files = <<>>
    /\ file_no = 0
    /\ buffer = <<>>
    /\ dispatched = <<>>
    /\ fixed_file_suffix = <<>>
    /\ IdleResult
    /\ IdleIgnore
    /\ IdleWalk

\* a LintedFile with any file mask over chars; fix_string not yet called
InitOver(chars) ==
    /\ pc = "start"
    /\ file_mask \in (Texts(chars, MaxLen) \cup {None})
                    \X (Texts(chars, MaxLen) \cup {None})
                    \X (Texts(chars, MaxLen) \cup {None})
    /\ diff_templ_codes = <<>>
    /\ diff_fix_codes = <<>>
    /\ templ_block = None
    /\ fixed_block = None
    /\ idx = <<0, 0, 0>>
    /\ write_buff = <<>>
    /\ loop_idx = 0
    /\ result = None
    /\ exc = ""
    /\ written = None
    /\ applied = {}
    /\ skipped = {}
    /\ emitted = {}
    /\ fix = FALSE
    /\ parsed = 1
    /\ working = 1
    /\ previous_versions = {}
    /\ last_fixes = <<>>
    /\ changed = FALSE
    /\ crawler = 1
    /\ passes = 0
    /\ warnings = 0
    /\ vs = <<>>
    /\ linting_errors = <<>>
    /\ initial_linting_errors = <<>>
    /\ aliased = FALSE
    /\ original = <<>>
    /\ trail = <<>>
    /\ event = "none"
    /\ proposal = <<>>
    /\ pass_accepted = <<>>
    /\ attempted = <<>>
    /\ proposals = {}
    /\ NoCalls
    /\ path = Paths[1]
    /\ suffix = <<>>
    /\ disk = (path :> file_mask[1])

Init == InitOver(Alphabet)

InitWide == InitOver(WideAlphabet)

\* a check of the raw file only
InsufficientInformationRawOnly(mask) == mask[1] = None

\* any(elem is None for elem in self.file_mask)
InsufficientInformation(mask) == \E i \in 1..3 : mask[i] = None

\* fix_string up to the write loop: the early return, or the two diffs
FixStringStart ==
    /\ pc = "start"
    /\ IF InsufficientInformation(file_mask)
       THEN /\ result' = <<None, FALSE>>
            /\ pc' = "returned"
            /\ UNCHANGED locals
       ELSE /\ diff_templ_codes' = get_opcodes(raw_file, templated_file)
            /\ diff_fix_codes' = get_opcodes(templated_file, fixed_file)
            /\ pc' = "loop"
            /\ UNCHANGED <<templ_block, fixed_block, idx, write_buff,
                           loop_idx, result>>
    /\ UNCHANGED <<file_mask, exc, written, history, outer_vars>>

(***************************************************************************)
(* The write loop of fix_string.  Every action below is one iteration:     *)
(* the fetch of the two blocks and the branch taken on them.               *)
(***************************************************************************)
\* the template is exhausted: no block held and none left to pop
TemplExhausted == templ_block = None /\ diff_templ_codes = <<>>

\* the template block of this iteration and the codes left after the fetch
curr_templ == IF templ_block # None THEN templ_block
              ELSE IF diff_templ_codes # <<>> THEN Head(diff_templ_codes)
              ELSE None
rest_templ == IF templ_block = None /\ diff_templ_codes # <<>>
              THEN Tail(diff_templ_codes) ELSE diff_templ_codes

\* the list of fix blocks left as it is by the fetch
rest_fix_unpopped == diff_fix_codes

\* the fix block of this iteration (None when the fixes are used up)
curr_fix == IF fixed_block # None THEN fixed_block
            ELSE IF diff_fix_codes # <<>> THEN Head(diff_fix_codes)
            ELSE None
rest_fix == IF fixed_block = None /\ diff_fix_codes # <<>>
            THEN Tail(diff_fix_codes) ELSE diff_fix_codes

\* all(elem[0] == 'insert' for elem in diff_fix_codes)
AllInserts(codes) == \A k \in 1..Len(codes) : Tag(codes[k]) = "insert"

\* the fixed-side texts of the blocks of codes, in order
RECURSIVE FlushText(_, _)
FlushText(codes, fixed) ==
    IF codes = <<>> THEN <<>>
    ELSE Slice(fixed, Head(codes)[4], Head(codes)[5])
         \o FlushText(Tail(codes), fixed)

\* the iteration reaches the branches with a template block of tag ttag
InBranch(ttag) ==
    /\ pc = "loop"
    /\ ~TemplExhausted
    /\ Tag(curr_templ) = ttag
    /\ (curr_fix # None \/ ttag = "delete")

\* the iteration ends in raise NotImplementedError(msg)
Raise(msg) ==
    /\ pc' = "raised"
    /\ exc' = msg
    /\ loop_idx' = loop_idx + 1
    /\ UNCHANGED <<file_mask, diff_templ_codes, diff_fix_codes, templ_block,
                   fixed_block, idx, write_buff, result, written, outer_vars>>

\* the iteration ends normally (continue, or fall through to the next one)
Continue ==
    /\ pc' = "loop"
    /\ loop_idx' = loop_idx + 1
    /\ UNCHANGED <<file_mask, result, exc, written, outer_vars>>

\* a comparison with the templated file instead of the raw file
ReturnValueAgainstTemplated(buff, mask) == <<buff, buff # mask[2]>>

\* return write_buff, write_buff != self.file_mask[0]
ReturnValue(buff, mask) == <<buff, buff # mask[1]>>

\* template and fixes exhausted: break, and return
LoopDone ==
    /\ pc = "loop"
    /\ TemplExhausted
    /\ fixed_block = None /\ diff_fix_codes = <<>>
    /\ pc' = "returned"
    /\ loop_idx' = loop_idx + 1
    /\ result' = ReturnValue(write_buff, file_mask)
    /\ UNCHANGED <<file_mask, diff_templ_codes, diff_fix_codes, templ_block,
                   fixed_block, idx, write_buff, exc, written, history,
                   outer_vars>>

\* template exhausted but not the fixes: when only inserts are left in
\* diff_fix_codes write them, break, and return; raise otherwise (difflib
\* leaves no other fix block behind the last template block, so that the
\* raise is not reached from the opcodes of get_opcodes)
LoopFlushInserts ==
    /\ pc = "loop"
    /\ TemplExhausted
    /\ ~(fixed_block = None /\ diff_fix_codes = <<>>)
    /\ IF AllInserts(diff_fix_codes)
       THEN /\ write_buff' = write_buff \o FlushText(diff_fix_codes, fixed_file)
            /\ fixed_block' = IF diff_fix_codes = <<>> THEN fixed_block
                              ELSE diff_fix_codes[Len(diff_fix_codes)]
            /\ applied' = applied \cup
                          {diff_fix_codes[k] : k \in 1..Len(diff_fix_codes)}
            /\ pc' = "returned"
            /\ loop_idx' = loop_idx + 1
            /\ result' = ReturnValue(write_buff', file_mask)
            /\ UNCHANGED <<file_mask, diff_templ_codes, diff_fix_codes,
                           templ_block, idx, exc, written, skipped, emitted,
                           outer_vars>>
       ELSE /\ Raise("Fix Block(s) left over")
            /\ UNCHANGED history

\* a template block other than a delete, and no fix block left
RaiseNoFixLeft ==
    /\ pc = "loop"
    /\ ~TemplExhausted
    /\ curr_fix = None
    /\ Tag(curr_templ) # "delete"
    /\ Raise("template block remains with no more diff_fix_codes left")
    /\ UNCHANGED history

\* equal template block, equal fix block: write the templated text up to
\* the nearer end and consume the block(s) that end there
EqualEqual ==
    /\ InBranch("equal")
    /\ Tag(curr_fix) = "equal"
    /\ LET tend == curr_templ[5]
           fend == curr_fix[3]
           buff == Slice(templated_file, idx[2], Min(tend, fend))
       IN  /\ templ_block' = IF tend <= fend THEN None ELSE curr_templ
           /\ fixed_block' = IF tend >= fend THEN None ELSE curr_fix
           /\ idx' = <<idx[1] + Len(buff), idx[2] + Len(buff), idx[3] + Len(buff)>>
           /\ write_buff' = write_buff \o buff
    /\ diff_templ_codes' = rest_templ
    /\ diff_fix_codes' = rest_fix
    /\ Continue
    /\ UNCHANGED history

\* the replace made wherever it ends
ReplaceFitsAlways(fblock, tblock) == TRUE

\* can the replace be made while staying in the equal template block?
ReplaceFits(fblock, tblock) == fblock[3] <= tblock[5]

\* equal template block, replace fix block that fits: write the fixed text
EqualReplace ==
    /\ InBranch("equal")
    /\ Tag(curr_fix) = "replace"
    /\ ReplaceFits(curr_fix, curr_templ)
    /\ write_buff' = write_buff \o Slice(fixed_file, idx[3], curr_fix[5])
    /\ idx' = <<idx[1] + (curr_fix[3] - curr_fix[2]), curr_fix[3], curr_fix[5]>>
    /\ fixed_block' = None
    /\ templ_block' = IF rest_templ = <<>> /\ rest_fix = <<>>
                      THEN None ELSE curr_templ
    /\ diff_templ_codes' = rest_templ
    /\ diff_fix_codes' = rest_fix
    /\ applied' = applied \cup {curr_fix}
    /\ Continue
    /\ UNCHANGED <<skipped, emitted>>

\* equal template block, replace fix block that runs past its end
RaiseDEF ==
    /\ InBranch("equal")
    /\ Tag(curr_fix) = "replace"
    /\ ~ReplaceFits(curr_fix, curr_templ)
    /\ Raise("DEF")
    /\ UNCHANGED history

\* equal template block, delete fix block: nothing to write
EqualDelete ==
    /\ InBranch("equal")
    /\ Tag(curr_fix) = "delete"
    /\ idx' = <<idx[1] + (curr_fix[3] - curr_fix[2]), curr_fix[3], curr_fix[5]>>
    /\ fixed_block' = None
    /\ templ_block' = curr_templ
    /\ diff_templ_codes' = rest_templ
    /\ diff_fix_codes' = rest_fix
    /\ applied' = applied \cup {curr_fix}
    /\ Continue
    /\ UNCHANGED <<write_buff, skipped, emitted>>

\* equal template block, insert fix block: write the inserted text
EqualInsert ==
    /\ InBranch("equal")
    /\ Tag(curr_fix) = "insert"
    /\ write_buff' = write_buff \o Slice(fixed_file, idx[3], curr_fix[5])
    /\ idx' = <<idx[1], idx[2], curr_fix[5]>>
    /\ fixed_block' = None
    /\ templ_block' = curr_templ
    /\ diff_templ_codes' = rest_templ
    /\ diff_fix_codes' = rest_fix
    /\ applied' = applied \cup {curr_fix}
    /\ Continue
    /\ UNCHANGED <<skipped, emitted>>

\* does the fix block contain the end point n of the template block?
ContainsEndPoint(block, n) == block[3] > n /\ n >= block[2]

\* the fast forward through the fix blocks up to the one that contains the
\* end point n; skip collects the blocks that are warned about.  ok is
\* FALSE when the fixes are used up before.
RECURSIVE FastForward(_, _, _, _)
FastForward(block, codes, n, skip) ==
    IF ContainsEndPoint(block, n)
    THEN [ok |-> TRUE, block |-> block, codes |-> codes, skip |-> skip]
    ELSE LET skip2 == IF Tag(block) # "equal" THEN skip \cup {block} ELSE skip
         IN  IF codes # <<>>
             THEN FastForward(Head(codes), Tail(codes), n, skip2)
             ELSE [ok |-> FALSE, block |-> block, codes |-> codes,
                   skip |-> skip2]

\* the fast forward of this iteration
ff == FastForward(curr_fix, rest_fix, curr_templ[5], {})

\* the offset taken over from any fix block
SameOffsetAlways(block) == TRUE

\* inside an equal fix block the fixed index is as far from the start of
\* the block as the templated index
SameOffset(block) == Tag(block) = "equal"

\* replace template block: write the raw text of the block, skip the fix
\* blocks of the templated section and land on a join or in an equal block
TemplReplace ==
    /\ InBranch("replace")
    /\ ff.ok
    /\ curr_templ[5] = ff.block[2] \/ SameOffset(ff.block)
    /\ idx' = IF curr_templ[5] = ff.block[2]
              THEN <<curr_templ[3], curr_templ[5], ff.block[4]>>
              ELSE <<curr_templ[3], curr_templ[5],
                     ff.block[4] + (curr_templ[5] - ff.block[2])>>
    /\ write_buff' = write_buff \o Slice(raw_file, idx[1], curr_templ[3])
    /\ templ_block' = None
    /\ fixed_block' = ff.block
    /\ diff_templ_codes' = rest_templ
    /\ diff_fix_codes' = ff.codes
    /\ skipped' = skipped \cup ff.skip
    /\ emitted' = emitted \cup
                  {<<curr_templ, Slice(raw_file, idx[1], curr_templ[3])>>}
    /\ Continue
    /\ UNCHANGED applied

\* replace template block, and no fix block contains its end point
RaiseDepleted ==
    /\ InBranch("replace")
    /\ ~ff.ok
    /\ skipped' = skipped \cup ff.skip
    /\ Raise("Unexpectedly depleted the fixes")
    /\ UNCHANGED <<applied, emitted>>

\* replace template block whose end point is inside a fix block that is
\* not an equal
RaiseABC ==
    /\ InBranch("replace")
    /\ ff.ok
    /\ curr_templ[5] # ff.block[2] /\ ~SameOffset(ff.block)
    /\ skipped' = skipped \cup ff.skip
    /\ Raise("ABC")
    /\ UNCHANGED <<applied, emitted>>

\* delete template block: write the raw text, only the raw index moves
TemplDelete ==
    /\ InBranch("delete")
    /\ LET buff == Slice(raw_file, idx[1], curr_templ[3])
       IN  /\ idx' = <<idx[1] + Len(buff), idx[2], idx[3]>>
           /\ write_buff' = write_buff \o buff
           /\ emitted' = emitted \cup {<<curr_templ, buff>>}
    /\ templ_block' = None
    /\ fixed_block' = curr_fix
    /\ diff_templ_codes' = rest_templ
    /\ diff_fix_codes' = rest_fix
    /\ Continue
    /\ UNCHANGED <<applied, skipped>>

\* the insert taken to end inside any equal fix block
InsertFitsAlways(tblock, fblock) == TRUE

\* can the insert be passed while staying in the equal fix block?
InsertFits(tblock, fblock) == tblock[5] <= fblock[3]

\* insert template block inside an equal fix block: nothing to write
TemplInsert ==
    /\ InBranch("insert")
    /\ Tag(curr_fix) = "equal"
    /\ InsertFits(curr_templ, curr_fix)
    /\ LET insert_len == curr_templ[5] - curr_templ[4]
       IN  idx' = <<idx[1], idx[2] + insert_len, idx[3] + insert_len>>
    /\ fixed_block' = IF curr_templ[5] = curr_fix[3] THEN None ELSE curr_fix
    /\ templ_block' = None
    /\ diff_templ_codes' = rest_templ
    /\ diff_fix_codes' = rest_fix
    /\ Continue
    /\ UNCHANGED <<write_buff, history>>

\* insert template block that runs past the end of the equal fix block
RaiseInsertScenario ==
    /\ InBranch("insert")
    /\ Tag(curr_fix) = "equal"
    /\ ~InsertFits(curr_templ, curr_fix)
    /\ Raise("Unexpected scenario during insert opcode")
    /\ UNCHANGED history

\* insert template block and a fix block that is not an equal
RaiseInsertOpcode ==
    /\ InBranch("insert")
    /\ Tag(curr_fix) # "equal"
    /\ Raise("Unexpected opcode for fix block")
    /\ UNCHANGED history

(***************************************************************************)
(* os.path.splitext of a path: the extension begins at the last dot of the *)
(* last component, unless that component has nothing but dots before it.   *)
(***************************************************************************)
\* p.rfind(c), counted from 1, and 0 when c is not in p
RFind(p, c) ==
    LET hits == {i \in 1..Len(p) : p[i] = c}
    IN  IF hits = {} THEN 0 ELSE CHOOSE i \in hits : \A k \in hits : k <= i

splitext(p) ==
    LET sepIndex == RFind(p, "/")
        dotIndex == RFind(p, ".")
    IN  IF /\ dotIndex > sepIndex
           /\ \E k \in (sepIndex + 1)..(dotIndex - 1) : p[k] # "."
        THEN <<SubSeq(p, 1, dotIndex - 1), SubSeq(p, dotIndex, Len(p))>>
        ELSE <<p, <<>>>>

\* the suffix put after the whole name
FileNameAppended(fname, sfx) == fname \o sfx

\* fname of persist_tree: self.path, or root + suffix + ext with a suffix
FileName(fname, sfx) ==
    IF sfx # <<>>
    THEN splitext(fname)[1] \o sfx \o splitext(fname)[2]
    ELSE fname

(***************************************************************************)
(* LintedFile.persist_tree, after its call of fix_string has returned: the *)
(* file is written when fix_string reports success.  written is the        *)
(* content of the file once it has been written, disk the storage.  An     *)
(* exception of fix_string leaves persist_tree, pc stays "raised".         *)
(***************************************************************************)
PersistTree ==
    /\ pc = "returned"
    /\ LET success == result[2]
       IN  /\ written' = IF success THEN result[1] ELSE written
           /\ disk' = IF success
                      THEN (FileName(path, suffix) :> result[1]) @@ disk
                      ELSE disk
    /\ pc' = "persisted"
    /\ UNCHANGED <<file_mask, locals, result, exc, history, lint_vars,
                   filter_vars, result_vars, ignore_vars, walk_vars,
                   batch_vars, path, suffix>>

Next ==
    \/ FixStringStart
    \/ LoopDone
    \/ LoopFlushInserts
    \/ RaiseNoFixLeft
    \/ EqualEqual
    \/ EqualReplace
    \/ RaiseDEF
    \/ EqualDelete
    \/ EqualInsert
    \/ TemplReplace
    \/ RaiseDepleted
    \/ RaiseABC
    \/ TemplDelete
    \/ TemplInsert
    \/ RaiseInsertScenario
    \/ RaiseInsertOpcode
    \/ PersistTree

Spec == Init /\ [][Next]_vars

SpecWide == InitWide /\ [][Next]_vars

(***************************************************************************)
(* Properties of fix_string and persist_tree.                              *)
(***************************************************************************)
\* the two diffs of the file mask, as fix_string computes them
TemplateOps == get_opcodes(raw_file, templated_file)
FixOps == get_opcodes(templated_file, fixed_file)

\* the blocks of a list of opcodes
Blocks(codes) == {codes[k] : k \in 1..Len(codes)}

\* the file mask is complete
MaskComplete == \A i \in 1..3 : file_mask[i] # None

\* fix_string has returned an output text
ReturnedOutput == pc \in {"returned", "persisted"} /\ result[1] # None

\* the templated-side span of the fix block f and that of the template
\* block t have a position in common (an insert's empty span: a position
\* strictly inside)
Overlaps(f, t) == f[2] < t[5] /\ t[4] < f[3]

\* the templated-side span of the fix block f is inside that of t
Inside(f, t) == t[4] <= f[2] /\ f[3] <= t[5]

\* C1: when fix_string returns an output, no fix block other than an equal
\* whose templated-side span overlaps that of a replace or insert block of
\* the template has been applied to the output.
C1_NoEditInTemplatedSection ==
    ReturnedOutput =>
        \A f \in applied : \A t \in Blocks(TemplateOps) :
            Tag(t) \in {"replace", "insert"} => ~Overlaps(f, t)

\* C2: when fix_string returns an output, the text written for a replace
\* block of the template with raw-side span [r1, r2) is raw[r1:r2].
C2_ReplaceEmitsRaw ==
    ReturnedOutput =>
        \A e \in emitted :
            Tag(e[1]) = "replace" => e[2] = Slice(raw_file, e[1][2], e[1][3])

\* C3: idempotence: with a complete file mask and fixed = templated,
\* fix_string does not raise and returns (raw, False).
C3_Idempotence ==
    (MaskComplete /\ fixed_file = templated_file) =>
        /\ pc # "raised"
        /\ pc \in {"returned", "persisted"} => result = <<raw_file, FALSE>>

\* C4: no-template identity: with templated = raw, fix_string does not
\* raise and returns (fixed, fixed != raw).
C4_NoTemplateIdentity ==
    (MaskComplete /\ templated_file = raw_file) =>
        /\ pc # "raised"
        /\ pc \in {"returned", "persisted"} =>
               result = <<fixed_file, fixed_file # raw_file>>

\* C5: when fix_string returns an output, every fix block other than an
\* equal has been applied to the output or has been skipped with a warning.
C5_EveryEditAccountedFor ==
    ReturnedOutput =>
        \A f \in Blocks(FixOps) :
            Tag(f) # "equal" => f \in applied \cup skipped

\* C6: when fix_string returns an output, the text written for a delete
\* block of the template with raw-side span [r1, r2) is raw[r1:r2], complete
\* and verbatim (the step itself moves the raw index only).
C6_DeleteEmitsRaw ==
    ReturnedOutput =>
        \A e \in emitted :
            Tag(e[1]) = "delete" => e[2] = Slice(raw_file, e[1][2], e[1][3])

\* the fix blocks other than equals, and those inside the replace block t
Edits == {f \in Blocks(FixOps) : Tag(f) # "equal"}
EditsInside(t) == {f \in Edits : Inside(f, t)}

\* C7: a fix block whose templated-side span lies inside that of a replace
\* block of the template is skipped with a warning, the raw text of the
\* replaced span is written verbatim, and fix_string completes.  Stated for
\* the files all of whose edits lie inside replace blocks of the template,
\* where nothing but the handling of these blocks can fail.
C7_EditInsideReplaceSkipped ==
    (/\ MaskComplete
     /\ Edits # {}
     /\ \A f \in Edits : \E t \in Blocks(TemplateOps) :
            Tag(t) = "replace" /\ Inside(f, t)) =>
        /\ pc # "raised"
        /\ ReturnedOutput =>
               \A t \in Blocks(TemplateOps) :
                   (Tag(t) = "replace" /\ EditsInside(t) # {}) =>
                       /\ EditsInside(t) \subseteq skipped
                       /\ <<t, Slice(raw_file, t[2], t[3])>> \in emitted

\* C8: with an incomplete file mask, fix_string returns (None, False): it
\* neither runs the merge nor raises, and persist_tree writes no file; a
\* failure of the merge is an exception and not a return value.
C8_InsufficientInformation ==
    /\ (\E i \in 1..3 : file_mask[i] = None) =>
           /\ pc \in {"start", "returned", "persisted"}
           /\ loop_idx = 0 /\ write_buff = <<>>
           /\ diff_templ_codes = <<>> /\ diff_fix_codes = <<>>
           /\ exc = ""
           /\ pc # "start" => result = <<None, FALSE>>
           /\ written = None
    /\ pc = "raised" => (result = None /\ exc # "" /\ written = None)

\* an incomplete mask has gone through fix_string and persist_tree
C8_Witness ==
    /\ pc = "persisted"
    /\ file_mask[1] # None /\ file_mask[2] = None /\ file_mask[3] = None
    /\ result = <<None, FALSE>>

\* C9: when fix_string returns an output text, the flag it returns is
\* (output text != raw), and persist_tree writes the file, with the output
\* text, exactly when the flag is true.
C9_ChangedFlag ==
    /\ ReturnedOutput => result[2] = (result[1] # raw_file)
    /\ (pc = "persisted" /\ result[1] # None) =>
           /\ (written # None) = result[2]
           /\ result[2] => written = result[1]

\* a changed file has been written, and an unchanged one has not
C9_Witness ==
    /\ pc = "persisted"
    /\ result[1] # None
    /\ result[2]
    /\ written = result[1]
    /\ written # raw_file
    /\ written # templated_file

(***************************************************************************)
(* The fix loop of Linter.lint_string.  The rules and apply_fixes are      *)
(* collaborators of the linter: a crawl proposes any fixes or none, and    *)
(* apply_fixes gives any tree.                                             *)
(***************************************************************************)
Trees == 1..NumTrees
Rules == 1..NumRules
\* the fixes a crawl can propose; NoFixes is the empty (falsy) proposal
Fixes == {<<k>> : k \in 1..NumFixes}
NoFixes == <<>>

\* the violations parse_string can give: none, or one of the parser (rule 0)
Upstream == {<<>>, << <<0, 0>> >>}

\* every rule sees the tree as first parsed, whatever was accepted since
CrawlOriginal(rule, tree) == << <<rule, 1>> >>

\* lerrs of crawler.crawl: a rule is deterministic, and reports what it
\* sees in the tree it is given, here one violation <<rule, tree>>
Crawl(rule, tree) == << <<rule, tree>> >>

\* lines 690-693: the violations of all the rules on one tree, in rule order
RECURSIVE CrawlAll(_, _)
CrawlAll(rule, tree) ==
    IF rule > NumRules THEN <<>>
    ELSE Crawl(rule, tree) \o CrawlAll(rule + 1, tree)

\* lint_string has parsed the string into a tree, and has linted it once;
\* the texts are numbered from the text of that tree
InitLint ==
    /\ pc = "lint_start"
    /\ fix \in BOOLEAN
    /\ parsed = 1
    /\ working = 1
    /\ previous_versions = {}
    /\ last_fixes = NoFixes
    /\ changed = FALSE
    /\ crawler = 1
    /\ passes = 0
    /\ warnings = 0
    /\ vs \in Upstream
    /\ linting_errors = CrawlAll(1, parsed)
    /\ initial_linting_errors = linting_errors
    /\ aliased = TRUE
    /\ original = [tree |-> parsed, vs |-> vs]
    /\ trail = <<>>
    /\ event = "none"
    /\ proposal = NoFixes
    /\ pass_accepted = NoFixes
    /\ attempted = NoFixes
    /\ proposals = {}
    /\ file_mask = <<None, None, None>>
    /\ diff_templ_codes = <<>>
    /\ diff_fix_codes = <<>>
    /\ templ_block = None
    /\ fixed_block = None
    /\ idx = <<0, 0, 0>>
    /\ write_buff = <<>>
    /\ loop_idx = 0
    /\ result = None
    /\ exc = ""
    /\ written = None
    /\ applied = {}
    /\ skipped = {}
    /\ emitted = {}
    /\ NoCalls
    /\ path = Paths[1]
    /\ suffix = <<>>
    /\ disk = <<>>

\* what the fix loop leaves alone
file_vars == <<file_mask, diff_templ_codes, diff_fix_codes, templ_block,
               fixed_block, idx, write_buff, loop_idx, result, exc, written,
               applied, skipped, emitted, filter_vars, result_vars,
               ignore_vars, walk_vars, batch_vars, path,
               suffix, disk>>

\* the name is left bound to the list it had
NotRebound(errs) == [list |-> errs, shared |-> TRUE]

\* linting_errors = [] : the name is bound to a new, empty list
Rebound(errs) == [list |-> <<>>, shared |-> FALSE]

\* parse_string gave no tree: parsed is None
NoTree == 0

\* any value taken for a tree
TruthyAlways(tree) == TRUE

\* if parsed:
Truthy(tree) == tree # NoTree

\* fix mode: set up the loop
FixLoopStart ==
    /\ pc = "lint_start"
    /\ Truthy(parsed)
    /\ fix
    /\ working' = parsed
    /\ previous_versions' = {parsed}
    /\ linting_errors' = Rebound(linting_errors).list
    /\ aliased' = Rebound(linting_errors).shared
    /\ last_fixes' = NoFixes
    /\ trail' = <<parsed>>
    /\ pc' = "fix_pass"
    /\ UNCHANGED <<fix, parsed, changed, crawler, passes, warnings, vs,
                   initial_linting_errors, original, event, proposal,
                   pass_accepted, attempted, proposals, file_vars>>

\* not in fix mode: no loop; vs += initial_linting_errors
LintOnly ==
    /\ pc = "lint_start"
    /\ Truthy(parsed)
    /\ ~fix
    /\ vs' = vs \o initial_linting_errors
    /\ pc' = "linted"
    /\ UNCHANGED <<fix, parsed, working, previous_versions, last_fixes,
                   changed, crawler, passes, warnings, linting_errors,
                   initial_linting_errors, aliased, lint_history, file_vars>>

\* while True: changed = False, and the for loop begins
PassStart ==
    /\ pc = "fix_pass"
    /\ passes < MaxPasses
    /\ changed' = FALSE
    /\ crawler' = 1
    /\ passes' = passes + 1
    /\ pass_accepted' = NoFixes
    /\ pc' = "fix_rule"
    /\ UNCHANGED <<fix, parsed, working, previous_versions, last_fixes,
                   warnings, lint_lists, original, trail, event, proposal,
                   attempted, proposals, file_vars>>

\* the rule is crawled over the working tree (linting_errors += lerrs), and
\* the for loop moves on to the next rule, or the pass is over
NextCrawler ==
    /\ linting_errors' = linting_errors \o Crawl(crawler, working)
    /\ initial_linting_errors' =
           IF aliased
           THEN initial_linting_errors \o Crawl(crawler, working)
           ELSE initial_linting_errors
    /\ proposals' = proposals \cup {proposal'}
    /\ crawler' = crawler + 1
    /\ pc' = IF crawler = NumRules THEN "fix_pass_end" ELSE "fix_rule"
    /\ UNCHANGED <<fix, parsed, passes, vs, aliased, original, file_vars>>

\* the rule proposes no fixes
CrawlNoFixes ==
    /\ pc = "fix_rule"
    /\ event' = "no_fixes"
    /\ proposal' = NoFixes
    /\ NextCrawler
    /\ UNCHANGED <<working, previous_versions, last_fixes, changed, warnings,
                   trail, pass_accepted, attempted>>

\* the cycle guard left out
NeverSameAsLast(fixes, last) == FALSE

\* last_fixes and fixes == last_fixes
SameAsLast(fixes, last) == last # NoFixes /\ fixes = last

\* no check of the previous versions
NotSeenUnchecked(new_working, previous) == TRUE

\* new_working.raw not in previous_versions
NotSeen(new_working, previous) == new_working \notin previous

\* changed = True wherever apply_fixes was called
ChangedAlways(accepted, was) == TRUE

\* changed left as it was in every branch
ChangedNever(accepted, was) == was

\* changed = True in the branch that takes the new tree, and only there
ChangedAfter(accepted, was) == IF accepted THEN TRUE ELSE was

\* the fixes of a crawl are told apart by their number only: fixes that
\* were not proposed before take the least number not yet proposed
Numbered(fixes) ==
    \/ fixes \in proposals
    \/ \A k \in 1..(fixes[1] - 1) : <<k>> \in proposals

\* likewise the texts: a text that no tree has had takes the least number
\* that no text has
NumberedText(tree) ==
    \/ tree \in previous_versions
    \/ \A k \in 1..(tree - 1) : k \in previous_versions

\* the rule proposes the fixes of last_fixes again: not applied
CrawlSameFixes ==
    /\ pc = "fix_rule"
    /\ \E fixes \in Fixes :
           /\ SameAsLast(fixes, last_fixes)
           /\ proposal' = fixes
    /\ event' = "cycle"
    /\ warnings' = warnings + 1
    /\ NextCrawler
    /\ UNCHANGED <<working, previous_versions, last_fixes, changed, trail,
                   pass_accepted, attempted>>

\* the rule proposes fixes that give a tree not seen before: applied
CrawlAccept ==
    /\ pc = "fix_rule"
    /\ \E fixes \in Fixes, new_working \in Trees :
           /\ Numbered(fixes)
           /\ NumberedText(new_working)
           /\ ~SameAsLast(fixes, last_fixes)
           /\ NotSeen(new_working, previous_versions)
           /\ last_fixes' = fixes
           /\ working' = new_working
           /\ previous_versions' = previous_versions \cup {new_working}
           /\ changed' = ChangedAfter(TRUE, changed)
           /\ trail' = Append(trail, new_working)
           /\ proposal' = fixes
           /\ pass_accepted' = fixes
           /\ attempted' = fixes
    /\ event' = "accept"
    /\ NextCrawler
    /\ UNCHANGED warnings

\* the rule proposes fixes that give a tree seen before: not applied
CrawlReject ==
    /\ pc = "fix_rule"
    /\ \E fixes \in Fixes, new_working \in Trees :
           /\ Numbered(fixes)
           /\ NumberedText(new_working)
           /\ ~SameAsLast(fixes, last_fixes)
           /\ ~NotSeen(new_working, previous_versions)
           /\ last_fixes' = fixes
           /\ proposal' = fixes
           /\ attempted' = fixes
    /\ changed' = ChangedAfter(FALSE, changed)
    /\ event' = "diverge"
    /\ warnings' = warnings + 1
    /\ NextCrawler
    /\ UNCHANGED <<working, previous_versions, trail, pass_accepted>>

\* a pass without a change: break, and return the altered version with the
\* initial errors (vs += initial_linting_errors)
PassBreak ==
    /\ pc = "fix_pass_end"
    /\ ~changed
    /\ parsed' = working
    /\ vs' = vs \o initial_linting_errors
    /\ pc' = "linted"
    /\ UNCHANGED <<fix, working, previous_versions, last_fixes, changed,
                   crawler, passes, warnings, linting_errors,
                   initial_linting_errors, aliased, lint_history, file_vars>>

\* a pass with a change: another pass
PassRepeat ==
    /\ pc = "fix_pass_end"
    /\ changed
    /\ pc' = "fix_pass"
    /\ UNCHANGED <<lint_vars, file_vars>>

NextLint ==
    \/ FixLoopStart
    \/ LintOnly
    \/ PassStart
    \/ CrawlNoFixes
    \/ CrawlSameFixes
    \/ CrawlAccept
    \/ CrawlReject
    \/ PassBreak
    \/ PassRepeat

SpecLint == InitLint /\ [][NextLint]_vars

\* the loop is sequential code: a step that can be taken is taken
SpecLintFair == SpecLint /\ WF_vars(NextLint)

\* C10: the fix loop terminates, and the number of its passes is at most
\* the number of distinct serialized texts observed plus one.
C10_FixLoopTerminates ==
    /\ [](passes <= Cardinality(previous_versions) + 1)
    /\ (pc = "fix_pass") ~> (pc = "linted")

\* the loop has ended after as many passes as there are texts
C10_Witness ==
    /\ pc = "linted"
    /\ fix
    /\ passes = NumTrees
    /\ Cardinality(previous_versions) = NumTrees

\* C11: the violations stored in the LintedFile are those of parse_string
\* followed by those the rules gave on the tree as first parsed; nothing
\* found while fixing is among them, so the list is the same with fix on
\* and with fix off.
C11_OnlyInitialViolations ==
    pc = "linted" => vs = original.vs \o CrawlAll(1, original.tree)

\* a fix run that changed the tree and found violations on the new tree
C11_Witness ==
    /\ pc = "linted"
    /\ fix
    /\ parsed # original.tree
    /\ \E i \in 1..Len(linting_errors) : linting_errors[i][2] # original.tree
    /\ vs = original.vs \o CrawlAll(1, original.tree)

\* C12: a tree is taken as the working tree only if its text is not among
\* the texts seen, so the texts the working tree has had, in order, never
\* hold the same text twice.
C12_NoTextTwice ==
    /\ \A i, j \in 1..Len(trail) : i # j => trail[i] # trail[j]
    /\ event = "accept" =>
           /\ working = trail[Len(trail)]
           /\ \A i \in 1..(Len(trail) - 1) : trail[i] # working

\* every text has been the working tree, and a fix that gave one of them
\* again has just been turned down
C12_Witness ==
    /\ Len(trail) = NumTrees
    /\ event = "diverge"
    /\ working = trail[Len(trail)]

\* C13 as stated: a crawl ends in the cycle guard's rejection exactly when
\* its proposal is the latest proposal applied in the same pass.
C13_CycleGuardSamePassAccepted ==
    [][pc = "fix_rule" =>
           ((event' = "cycle") <=>
                (proposal' # NoFixes /\ proposal' = pass_accepted))]_vars

\* C13: a crawl ends in the cycle guard's rejection exactly when its
\* proposal is the latest proposal that was handed to apply_fixes, whether
\* that one was then taken or turned down by the divergence guard, and
\* whether it was made in this pass or in an earlier one.
C13_CycleGuardLatestAttempt ==
    [][pc = "fix_rule" =>
           ((event' = "cycle") <=>
                (proposal' # NoFixes /\ proposal' = attempted))]_vars

\* the first rule of a later pass proposes what the last pass applied last
C13_Witness ==
    /\ event = "cycle"
    /\ passes > 1
    /\ pass_accepted = NoFixes
    /\ proposal = attempted

\* every crawl so far has proposed one and the same edit
UniformProposals == Cardinality(proposals) = 1 /\ proposals \subseteq Fixes

\* the crawls of the fix loop so far
CrawlsDone == (passes - 1) * NumRules + (crawler - 1)

C15_RejectLeavesLoopState ==
    [][(pc = "fix_rule" /\ event' \in {"cycle", "diverge"}) =>
           /\ working' = working
           /\ previous_versions' = previous_versions
           /\ trail' = trail
           /\ changed' = changed
           /\ exc' = exc
           /\ warnings' = warnings + 1
           /\ passes' = passes
           /\ crawler' = crawler + 1
           /\ pc' = IF crawler = NumRules THEN "fix_pass_end"
                    ELSE "fix_rule"]_vars

\* the first rule's fix was turned down by the divergence guard in a pass
\* without a change so far, and the next rule is up
C15_Witness ==
    /\ pc = "fix_rule"
    /\ event = "diverge"
    /\ crawler = 2
    /\ ~changed
    /\ warnings > 0
    /\ working = trail[Len(trail)]

(***************************************************************************)
(* LintedFile.get_violations.  A violation is a record of what the filters *)
(* read: its class (type), rule_code() (code), line_no() (line), fixable   *)
(* and ignore.  A parse error has the code PRS and is never fixable.  An   *)
(* entry of the ignore mask is <<line_no, rules>>, rules a tuple of codes  *)
(* or None.  In kwargs the empty set stands for a rules or types argument  *)
(* that is None or empty, and fixable is "None", "True" or "False".        *)
(***************************************************************************)
MaxViolations == 2
Lines == {1, 2}

LintViolations ==
    [type : {"SQLLintError"}, code : {"L001"}, line : Lines,
     fixable : BOOLEAN, ignore : BOOLEAN]

ParseViolations ==
    [type : {"SQLParseError"}, code : {"PRS"}, line : Lines,
     fixable : {FALSE}, ignore : BOOLEAN]

Violations == LintViolations \cup ParseViolations

ViolationLists == UNION {[1..n -> Violations] : n \in 0..MaxViolations}

IgnoreEntries == {<<l, r>> : l \in Lines, r \in {None, <<"L001">>, <<"PRS">>}}

IgnoreMasks ==
    {<<>>} \cup {<<e>> : e \in IgnoreEntries}
           \cup {<< <<1, None>>, <<2, <<"L001">>>> >>}

RuleArgs == {{}, {"L001"}, {"PRS"}}
TypeArgs == {{}, {"SQLLintError"}, {"SQLParseError"}}
FixableArgs == {"None", "True", "False"}

\* the fix_string and persist_tree variables of a run without such a call
IdleFile ==
    /\ file_mask = <<None, None, None>>
    /\ diff_templ_codes = <<>>
    /\ diff_fix_codes = <<>>
    /\ templ_block = None
    /\ fixed_block = None
    /\ idx = <<0, 0, 0>>
    /\ write_buff = <<>>
    /\ loop_idx = 0
    /\ result = None
    /\ exc = ""
    /\ written = None
    /\ applied = {}
    /\ skipped = {}
    /\ emitted = {}

\* the lint_string variables of a run without such a call
IdleLint ==
    /\ fix = FALSE
    /\ parsed = 1
    /\ working = 1
    /\ previous_versions = {}
    /\ last_fixes = <<>>
    /\ changed = FALSE
    /\ crawler = 1
    /\ passes = 0
    /\ warnings = 0
    /\ vs = <<>>
    /\ linting_errors = <<>>
    /\ initial_linting_errors = <<>>
    /\ aliased = FALSE
    /\ original = <<>>
    /\ trail = <<>>
    /\ event = "none"
    /\ proposal = <<>>
    /\ pass_accepted = <<>>
    /\ attempted = <<>>
    /\ proposals = {}

\* a LintedFile with any violations and any ignore mask
InitFilter ==
    /\ pc = "filter_start"
    /\ violations \in ViolationLists
    /\ ignore_mask \in IgnoreMasks
    /\ kwargs = DefaultKwargs
    /\ selected = <<>>
    /\ files = <<>>
    /\ file_no = 0
    /\ buffer = <<>>
    /\ dispatched = <<>>
    /\ fixed_file_suffix = <<>>
    /\ path = Paths[1]
    /\ suffix = <<>>
    /\ disk = <<>>
    /\ IdleFile
    /\ IdleLint
    /\ IdleResult
    /\ IdleIgnore
    /\ IdleWalk

\* isinstance(v, types)
IsInstance(v, types) == v.type \in types

\* if types: violations = [v for v in violations if isinstance(v, types)]
FilterTypes(list, types) ==
    IF types # {}
    THEN SelectSeq(list, LAMBDA v : IsInstance(v, types))
    ELSE list

\* if rules: violations = [v for v in violations if v.rule_code() in rules]
FilterRules(list, rules) ==
    IF rules # {}
    THEN SelectSeq(list, LAMBDA v : v.code \in rules)
    ELSE list

\* if fixable is not None: [v for v in violations if v.fixable is fixable]
FilterFixable(list, fixable) ==
    IF fixable # "None"
    THEN SelectSeq(list, LAMBDA v : v.fixable = (fixable = "True"))
    ELSE list

\* the rules of the entry not looked at
MaskEntryRemovesLine(v, entry) == v.line = entry[1]

\* v.line_no() == line_no and (rules is None or v.rule_code() in rules)
MaskEntryRemoves(v, entry) ==
    /\ v.line = entry[1]
    /\ \/ entry[2] = None
       \/ \E i \in 1..Len(entry[2]) : entry[2][i] = v.code

\* for line_no, rules in self.ignore_mask: violations = [...]
RECURSIVE ApplyMask(_, _)
ApplyMask(list, mask) ==
    IF mask = <<>> THEN list
    ELSE ApplyMask(SelectSeq(list, LAMBDA v : ~MaskEntryRemoves(v, Head(mask))),
                   Tail(mask))

\* if filter_ignore: the ignore flags, then the ignore mask
FilterIgnore(list, mask, filter_ignore) ==
    IF filter_ignore
    THEN ApplyMask(SelectSeq(list, LAMBDA v : ~v.ignore), mask)
    ELSE list

\* if types: ... elif rules: ...
get_violations_elif(list, mask, k) ==
    FilterIgnore(
        FilterFixable(
            IF k.types # {} THEN FilterTypes(list, k.types)
            ELSE FilterRules(list, k.rules),
            k.fixable),
        mask, k.filter_ignore)

\* the filters in the order of the code: types, rules, fixable, ignore
get_violations(list, mask, k) ==
    FilterIgnore(
        FilterFixable(FilterRules(FilterTypes(list, k.types), k.rules),
                      k.fixable),
        mask, k.filter_ignore)

\* len(self.get_violations(**kwargs))
num_violations(list, mask, k) == Len(get_violations(list, mask, k))

\* a call of get_violations with any arguments
GetViolations ==
    /\ pc = "filter_start"
    /\ \E rules \in RuleArgs, types \in TypeArgs, fixable \in FixableArgs,
          filter_ignore \in BOOLEAN :
           kwargs' = [rules |-> rules, types |-> types,
                      filter_ignore |-> filter_ignore, fixable |-> fixable]
    /\ selected' = get_violations(violations, ignore_mask, kwargs')
    /\ pc' = "filtered"
    /\ UNCHANGED <<violations, ignore_mask, batch_vars, path, suffix, disk,
                   file_mask, locals, result, exc, written, history,
                   lint_vars, result_vars, ignore_vars, walk_vars>>

NextFilter == GetViolations

SpecFilter == InitFilter /\ [][NextFilter]_vars

\* the four filters by name
FilterNames == {"types", "rules", "fixable", "ignore"}

ApplyFilter(name, list, mask, k) ==
    CASE name = "types" -> FilterTypes(list, k.types)
      [] name = "rules" -> FilterRules(list, k.rules)
      [] name = "fixable" -> FilterFixable(list, k.fixable)
      [] name = "ignore" -> FilterIgnore(list, mask, k.filter_ignore)

\* v satisfies every predicate that the arguments select
Satisfies(v, mask, k) ==
    /\ k.types # {} => v.type \in k.types
    /\ k.rules # {} => v.code \in k.rules
    /\ k.fixable = "True" => v.fixable
    /\ k.fixable = "False" => ~v.fixable
    /\ k.filter_ignore =>
           /\ ~v.ignore
           /\ \A i \in 1..Len(mask) :
                  ~(/\ v.line = mask[i][1]
                    /\ \/ mask[i][2] = None
                       \/ \E n \in 1..Len(mask[i][2]) : mask[i][2][n] = v.code)

\* C16: get_violations returns the violations that satisfy all the selected
\* predicates (type, rule code, fixable, not ignored), in their order, and
\* the four filters applied in any order give that same list.
C16_FiltersCommute ==
    pc = "filtered" =>
        /\ selected = SelectSeq(violations,
                                LAMBDA v : Satisfies(v, ignore_mask, kwargs))
        /\ \A a \in FilterNames :
           LET la == ApplyFilter(a, violations, ignore_mask, kwargs) IN
           \A b \in FilterNames \ {a} :
           LET lb == ApplyFilter(b, la, ignore_mask, kwargs) IN
           \A c \in FilterNames \ {a, b} :
           LET lc == ApplyFilter(c, lb, ignore_mask, kwargs) IN
           \A d \in FilterNames \ {a, b, c} :
               ApplyFilter(d, lc, ignore_mask, kwargs) = selected

\* all four filters are on, and one of two violations is left
C16_Witness ==
    /\ pc = "filtered"
    /\ kwargs.types # {}
    /\ kwargs.rules # {}
    /\ kwargs.fixable # "None"
    /\ kwargs.filter_ignore
    /\ ignore_mask # <<>>
    /\ Len(violations) = 2
    /\ Len(selected) = 1

\* v passes the filters on type, rule code and fixable that k selects
PassesOtherFilters(v, k) ==
    /\ k.types # {} => v.type \in k.types
    /\ k.rules # {} => v.code \in k.rules
    /\ k.fixable = "True" => v.fixable
    /\ k.fixable = "False" => ~v.fixable

\* C17: with filter_ignore on, an entry (line, None) of the ignore mask
\* leaves no violation of that line, an entry (line, rules) leaves none of
\* that line with a code of rules, and a violation that is not flagged and
\* that no entry names by line and code stays; with filter_ignore off
\* neither the flag nor the mask takes anything away.
C17_IgnoreMask ==
    pc = "filtered" =>
        LET base == SelectSeq(violations,
                              LAMBDA v : PassesOtherFilters(v, kwargs))
            left == {selected[n] : n \in 1..Len(selected)}
            Named(v) ==
                \E i \in 1..Len(ignore_mask) :
                    /\ v.line = ignore_mask[i][1]
                    /\ \/ ignore_mask[i][2] = None
                       \/ \E n \in 1..Len(ignore_mask[i][2]) :
                              ignore_mask[i][2][n] = v.code
        IN  IF kwargs.filter_ignore
            THEN /\ \A i \in 1..Len(ignore_mask) : \A v \in left :
                        ignore_mask[i][2] = None => v.line # ignore_mask[i][1]
                 /\ \A i \in 1..Len(ignore_mask) : \A v \in left :
                        (/\ ignore_mask[i][2] # None
                         /\ v.line = ignore_mask[i][1]) =>
                            \A n \in 1..Len(ignore_mask[i][2]) :
                                ignore_mask[i][2][n] # v.code
                 /\ selected = SelectSeq(base,
                                         LAMBDA v : ~v.ignore /\ ~Named(v))
            ELSE selected = base

\* two violations on line 1 and the mask entry (1, ("L001",)): the one of
\* L001 is taken away, the parse error stays
C17_Witness ==
    /\ pc = "filtered"
    /\ kwargs = DefaultKwargs
    /\ ignore_mask = << <<1, <<"L001">>>> >>
    /\ Len(violations) = 2
    /\ violations[1].code = "L001" /\ violations[1].line = 1
    /\ violations[2].code = "PRS" /\ violations[2].line = 1
    /\ ~violations[1].ignore /\ ~violations[2].ignore
    /\ selected = <<violations[2]>>

(***************************************************************************)
(* LintedPath.persist_changes over the files of a path, with a formatter   *)
(* and without further keyword arguments.  The file masks of the files are *)
(* taken from a family that has every outcome of fix_string in it; the     *)
(* violations of a file are none, a fixable one, or an unfixable one       *)
(* together with a fixable one flagged as ignored.  File i has the path    *)
(* Paths[i], and storage first holds the raw text of each file under its   *)
(* path.                                                                   *)
(***************************************************************************)
NumFiles == 2

Suffixes == {<<>>, <<"_">>}

FileMasks ==
    { <<<<"a">>, <<"a">>, <<"a">>>>,
      <<<<"a">>, None, None>>,
      <<<<>>, <<>>, <<"a">>>>,
      <<<<"a", "a">>, <<"a", "b", "a">>, <<"b", "b">>>>,
      <<<<"a">>, <<"b">>, <<>>>>,
      <<<<"a">>, <<"a", "a">>, <<"b">>>>,
      <<<<>>, <<"a", "a">>, <<"a">>>>,
      <<<<"a", "b">>, <<"b", "b">>, <<"a", "b">>>>,
      <<<<"a", "a", "b">>, <<"b", "a", "b">>, <<"b">>>>,
      <<<<"a", "a", "b">>, <<"b", "a", "b">>, <<>>>> }

FixableViolation ==
    [type |-> "SQLLintError", code |-> "L001", line |-> 1, fixable |-> TRUE,
     ignore |-> FALSE]

FileViolations ==
    { <<>>,
      <<FixableViolation>>,
      <<[FixableViolation EXCEPT !.fixable = FALSE],
        [FixableViolation EXCEPT !.ignore = TRUE]>> }

\* the lists of n LintedFiles
FileLists(n) ==
    {[i \in 1..n |-> [path |-> Paths[i], violations |-> c[i][1],
                      ignore_mask |-> <<>>, file_mask |-> c[i][2]]] :
        c \in [1..n -> FileViolations \X FileMasks]}

\* persist_changes is called on a path with any files; buffer = {}
InitPersist ==
    /\ pc = "persist_file"
    /\ files \in UNION {FileLists(n) : n \in 0..NumFiles}
    /\ file_no = 1
    /\ buffer = <<>>
    /\ dispatched = <<>>
    /\ fixed_file_suffix \in Suffixes
    /\ path = Paths[1]
    /\ suffix = <<>>
    /\ disk = [name \in {Paths[i] : i \in 1..Len(files)} |->
                  LET i == CHOOSE n \in 1..Len(files) : Paths[n] = name
                  IN  files[i].file_mask[1]]
    /\ violations = <<>>
    /\ ignore_mask = <<>>
    /\ kwargs = DefaultKwargs
    /\ selected = <<>>
    /\ IdleFile
    /\ IdleLint
    /\ IdleResult
    /\ IdleIgnore
    /\ IdleWalk

\* the file of the for loop
file == files[file_no]

\* the ignored violations counted as well
HasFixableUnfiltered(f) ==
    num_violations(f.violations, f.ignore_mask,
                   [DefaultKwargs EXCEPT !.fixable = "True",
                                         !.filter_ignore = FALSE]) > 0

\* file.num_violations(fixable=True, **kwargs) > 0
HasFixable(f) ==
    num_violations(f.violations, f.ignore_mask,
                   [DefaultKwargs EXCEPT !.fixable = "True"]) > 0

\* the else branch: buffer[file.path] = True, result = 'SKIP', and the
\* formatter is told
PersistSkip ==
    /\ pc = "persist_file"
    /\ file_no <= Len(files)
    /\ ~HasFixable(file)
    /\ buffer' = (file.path :> TRUE) @@ buffer
    /\ dispatched' = Append(dispatched, <<file.path, "SKIP">>)
    /\ file_no' = file_no + 1
    /\ UNCHANGED <<pc, files, fixed_file_suffix, path, suffix, disk,
                   file_mask, locals, result, exc, written, history,
                   lint_vars, filter_vars,
                   result_vars, ignore_vars, walk_vars>>

\* file.persist_tree(suffix=fixed_file_suffix) is called: fix_string begins
PersistCall ==
    /\ pc = "persist_file"
    /\ file_no <= Len(files)
    /\ HasFixable(file)
    /\ path' = file.path
    /\ suffix' = fixed_file_suffix
    /\ file_mask' = file.file_mask
    /\ diff_templ_codes' = <<>>
    /\ diff_fix_codes' = <<>>
    /\ templ_block' = None
    /\ fixed_block' = None
    /\ idx' = <<0, 0, 0>>
    /\ write_buff' = <<>>
    /\ loop_idx' = 0
    /\ result' = None
    /\ exc' = ""
    /\ written' = None
    /\ applied' = {}
    /\ skipped' = {}
    /\ emitted' = {}
    /\ pc' = "start"
    /\ UNCHANGED <<batch_vars, disk, lint_vars, filter_vars,
                   result_vars, ignore_vars, walk_vars>>

\* persist_tree has returned success: buffer[file.path] = success, and the
\* formatter is told
PersistReturn ==
    /\ pc = "persisted"
    /\ file_no >= 1
    /\ buffer' = (file.path :> result[2]) @@ buffer
    /\ dispatched' =
           Append(dispatched,
                  <<file.path, IF result[2] THEN "True" ELSE "False">>)
    /\ file_no' = file_no + 1
    /\ pc' = "persist_file"
    /\ UNCHANGED <<files, fixed_file_suffix, path, suffix, disk, file_mask,
                   locals, result, exc, written, history, lint_vars,
                   filter_vars,
                   result_vars, ignore_vars, walk_vars>>

\* the for loop is over: return buffer
PersistLeave ==
    /\ pc = "persist_file"
    /\ file_no > Len(files)
    /\ pc' = "persist_done"
    /\ UNCHANGED <<batch_vars, path, suffix, disk, file_mask, locals, result,
                   exc, written, history, lint_vars, filter_vars,
                   result_vars, ignore_vars, walk_vars>>

\* fix_string has raised: nothing in persist_tree or persist_changes (or
\* in LintingResult.persist_changes) catches, the exception leaves the for
\* loop and the call
PersistAbort ==
    /\ pc = "raised"
    /\ file_no >= 1
    /\ pc' = "persist_aborted"
    /\ UNCHANGED <<batch_vars, path, suffix, disk, file_mask, locals, result,
                   exc, written, history, lint_vars, filter_vars,
                   result_vars, ignore_vars, walk_vars>>

NextPersist ==
    \/ PersistSkip
    \/ PersistCall
    \/ PersistReturn
    \/ PersistLeave
    \/ PersistAbort
    \/ Next

SpecPersist == InitPersist /\ [][NextPersist]_vars

\* file i has a violation that is fixable, not flagged as ignored and not
\* named by the ignore mask of the file
FixableNotIgnored(i) ==
    \E n \in 1..Len(files[i].violations) :
        LET v == files[i].violations[n]
            mask == files[i].ignore_mask
        IN  /\ v.fixable
            /\ ~v.ignore
            /\ \A m \in 1..Len(mask) :
                   ~(/\ v.line = mask[m][1]
                     /\ \/ mask[m][2] = None
                        \/ \E c \in 1..Len(mask[m][2]) : mask[m][2][c] = v.code)

\* the stem and the extension of each of the Paths, written out
Stems == << <<"f">>, <<"d", ".", "r", "/", "f">>, <<".", "s">>, <<"f">> >>
Exts == << <<".", "s">>, <<>>, <<>>, <<>> >>

\* storage holds what it held at first under the names of file i: the raw
\* text under its path, and nothing under its path with the suffix
Untouched(i) ==
    /\ disk[files[i].path] = files[i].file_mask[1]
    /\ fixed_file_suffix # <<>> =>
           (Stems[i] \o fixed_file_suffix \o Exts[i]) \notin DOMAIN disk

\* C18: persist_changes writes for a file only if the file has a fixable
\* violation that is not ignored; a file without one stays as it is on
\* storage, and once the loop has passed it, it is in the buffer and has
\* been reported to the formatter as SKIP.
C18_OnlyFixableRewritten ==
    \A i \in 1..Len(files) :
        ~FixableNotIgnored(i) =>
            /\ Untouched(i)
            /\ i < file_no =>
                   /\ dispatched[i] = <<files[i].path, "SKIP">>
                   /\ buffer[files[i].path] = TRUE

\* the first file was rewritten, the second, whose only fixable violation
\* is flagged as ignored and whose fix would change it, was skipped
C18_Witness ==
    /\ pc = "persist_done"
    /\ Len(files) = 2
    /\ FixableNotIgnored(1)
    /\ ~Untouched(1)
    /\ ~FixableNotIgnored(2)
    /\ files[2].violations # <<>>
    /\ files[2].file_mask = <<<<>>, <<>>, <<"a">>>>
    /\ Untouched(2)
    /\ dispatched[2] = <<files[2].path, "SKIP">>

\* C19: with a suffix, persist_tree writes the corrected text under
\* stem + suffix + extension and leaves the file of the path as it was;
\* without a suffix it writes over the file of the path; when fix_string
\* reports no success (changed is false), nothing is written.
C19_SuffixedFileName ==
    (pc = "persisted" /\ file_no >= 1) =>
        LET raw == files[file_no].file_mask[1]
            suffixed == Stems[file_no] \o suffix \o Exts[file_no]
        IN  /\ (result[2] /\ suffix # <<>>) =>
                   /\ suffixed \in DOMAIN disk
                   /\ disk[suffixed] = result[1]
                   /\ disk[path] = raw
            /\ (result[2] /\ suffix = <<>>) => disk[path] = result[1]
            /\ ~result[2] =>
                   /\ disk[path] = raw
                   /\ suffix # <<>> => suffixed \notin DOMAIN disk

\* f.s was fixed with the suffix _ : f_.s has the new text, f.s the old
C19_Witness ==
    /\ pc = "persisted"
    /\ file_no = 1
    /\ path = <<"f", ".", "s">>
    /\ suffix = <<"_">>
    /\ result[2]
    /\ <<"f", "_", ".", "s">> \in DOMAIN disk
    /\ disk[<<"f", "_", ".", "s">>] = result[1]
    /\ disk[path] = files[1].file_mask[1]
    /\ disk[path] # result[1]

\* C20: when persist_changes has ended, every file but one whose
\* fix_string failed is in the buffer and has been reported.
C20_BatchSurvivesFailure ==
    pc \in {"persist_done", "persist_aborted"} =>
        \A i \in 1..Len(files) :
            (pc = "persist_aborted" => i # file_no) =>
                /\ files[i].path \in DOMAIN buffer
                /\ \E n \in 1..Len(dispatched) :
                       dispatched[n][1] = files[i].path

\* the file mask of file i lacks the templated or the fixed text
IncompleteMask(i) == InsufficientInformation(files[i].file_mask)

NumPaths == 2

\* the violations and the ignore mask of a linted file: none; three of
\* which the second is masked; two that do not count, one flagged and one
\* masked
ResultFileKinds ==
    { <<<<>>, <<>>>>,
      <<<<[FixableViolation EXCEPT !.line = 2],
          FixableViolation,
          [type |-> "SQLParseError", code |-> "PRS", line |-> 1,
           fixable |-> FALSE, ignore |-> FALSE]>>,
        << <<1, <<"L001">>>> >>>>,
      <<<<[FixableViolation EXCEPT !.ignore = TRUE],
          [type |-> "SQLParseError", code |-> "PRS", line |-> 1,
           fixable |-> FALSE, ignore |-> FALSE]>>,
        << <<1, <<"PRS">>>> >>>> }

\* the LintedPaths of n files: the files of one path have different names
LintedPaths(n) ==
    {[i \in 1..n |-> [path |-> Paths[i], violations |-> c[i][1],
                      ignore_mask |-> c[i][2]]] :
        c \in [1..n -> ResultFileKinds]}

\* LintingResult(): self.paths = []
InitResult ==
    /\ pc = "result"
    /\ paths = <<>>
    /\ all_stats = <<>>
    /\ records = <<>>
    /\ IdleIgnore
    /\ IdleWalk
    /\ violations = <<>>
    /\ ignore_mask = <<>>
    /\ kwargs = DefaultKwargs
    /\ selected = <<>>
    /\ files = <<>>
    /\ file_no = 0
    /\ buffer = <<>>
    /\ dispatched = <<>>
    /\ fixed_file_suffix = <<>>
    /\ path = Paths[1]
    /\ suffix = <<>>
    /\ disk = <<>>
    /\ IdleFile
    /\ IdleLint

\* LintingResult.add(path)
AddPath ==
    /\ pc = "result"
    /\ Len(paths) < NumPaths
    /\ \E n \in 0..NumFiles : \E lintedpath \in LintedPaths(n) :
           paths' = Append(paths, lintedpath)
    /\ UNCHANGED <<pc, all_stats, records, ignore_vars, walk_vars,
                   filter_vars,
                   batch_vars, path, suffix, disk, file_mask, locals, result,
                   exc, written, history, lint_vars>>

\* LintedFile.is_clean(): not any(self.get_violations(filter_ignore=True))
is_clean(f) ==
    get_violations(f.violations, f.ignore_mask, DefaultKwargs) = <<>>

\* sum(...) over a list of numbers
RECURSIVE SumOf(_)
SumOf(numbers) ==
    IF numbers = <<>> THEN 0 ELSE Head(numbers) + SumOf(Tail(numbers))

\* the violations of the unfiltered list counted
path_stats_unfiltered(lintedpath) ==
    [files |-> Len(lintedpath),
     clean |-> SumOf([i \in 1..Len(lintedpath) |->
                         IF is_clean(lintedpath[i]) THEN 1 ELSE 0]),
     unclean |-> SumOf([i \in 1..Len(lintedpath) |->
                           IF is_clean(lintedpath[i]) THEN 0 ELSE 1]),
     violations |-> SumOf([i \in 1..Len(lintedpath) |->
                              Len(lintedpath[i].violations)])]

\* LintedPath.stats()
path_stats(lintedpath) ==
    [files |-> Len(lintedpath),
     clean |-> SumOf([i \in 1..Len(lintedpath) |->
                         IF is_clean(lintedpath[i]) THEN 1 ELSE 0]),
     unclean |-> SumOf([i \in 1..Len(lintedpath) |->
                           IF is_clean(lintedpath[i]) THEN 0 ELSE 1]),
     violations |-> SumOf([i \in 1..Len(lintedpath) |->
                              num_violations(lintedpath[i].violations,
                                             lintedpath[i].ignore_mask,
                                             DefaultKwargs)])]

\* LintingResult.sum_dicts(d1, d2); d.get(key, 0)
sum_dicts(d1, d2) ==
    [key \in DOMAIN d1 \cup DOMAIN d2 |->
        (IF key \in DOMAIN d1 THEN d1[key] ELSE 0)
        + (IF key \in DOMAIN d2 THEN d2[key] ELSE 0)]

\* the for loop of LintingResult.stats over the first n paths
RECURSIVE SumStats(_, _)
SumStats(ps, n) ==
    IF n = 0
    THEN [files |-> 0, clean |-> 0, unclean |-> 0, violations |-> 0]
    ELSE sum_dicts(path_stats(ps[n]), SumStats(ps, n - 1))

\* LintingResult.stats(); the two rates are kept as fractions <<p, q>>
stats(ps) ==
    LET summed == SumStats(ps, Len(ps))
        rates == IF summed.files > 0
                 THEN [avg_per_file |-> <<summed.violations, summed.files>>,
                       unclean_rate |-> <<summed.unclean, summed.files>>]
                 ELSE [avg_per_file |-> <<0, 1>>, unclean_rate |-> <<0, 1>>]
    IN  [files |-> summed.files,
         clean |-> summed.clean,
         unclean |-> summed.unclean,
         violations |-> summed.violations,
         avg_per_file |-> rates.avg_per_file,
         unclean_rate |-> rates.unclean_rate,
         clean_files |-> summed.clean,
         unclean_files |-> summed.unclean,
         exit_code |-> IF summed.violations > 0 THEN 65 ELSE 0,
         status |-> IF summed.violations > 0 THEN "FAIL" ELSE "PASS"]

\* result.stats() is called
Stats ==
    /\ pc = "result"
    /\ all_stats' = stats(paths)
    /\ pc' = "stats_done"
    /\ UNCHANGED <<paths, records, ignore_vars, walk_vars, filter_vars,
                   batch_vars, path,
                   suffix, disk, file_mask, locals, result, exc, written,
                   history, lint_vars>>

\* d[key] = value on a dict kept as the list of its items: a key that is
\* there keeps its place
DictSet(d, key, value) ==
    IF \E i \in 1..Len(d) : d[i][1] = key
    THEN [i \in 1..Len(d) |-> IF d[i][1] = key THEN <<key, value>> ELSE d[i]]
    ELSE Append(d, <<key, value>>)

\* LintedPath.violation_dict(): {file.path: file.get_violations()}, over
\* the first n files
RECURSIVE violation_dict(_, _)
violation_dict(lintedpath, n) ==
    IF n = 0
    THEN <<>>
    ELSE DictSet(violation_dict(lintedpath, n - 1), lintedpath[n].path,
                 get_violations(lintedpath[n].violations,
                                lintedpath[n].ignore_mask, DefaultKwargs))

\* v.get_info_dict(), as far as the violations are modelled
get_info_dict(v) == [code |-> v.code, line_no |-> v.line]

\* every item kept
KeepsAll(item_violations) == TRUE

\* the condition of the comprehension: if violations
Keeps(item_violations) == item_violations # <<>>

\* the records of one path: the items with violations
RECURSIVE RecordsOf(_)
RecordsOf(items) ==
    IF items = <<>>
    THEN <<>>
    ELSE LET item == Head(items)
             record == [filepath |-> item[1],
                        violations |-> [n \in 1..Len(item[2]) |->
                                           get_info_dict(item[2][n])]]
         IN  (IF Keeps(item[2]) THEN <<record>> ELSE <<>>)
             \o RecordsOf(Tail(items))

\* LintingResult.as_records(), over the first n paths
RECURSIVE as_records(_, _)
as_records(ps, n) ==
    IF n = 0
    THEN <<>>
    ELSE as_records(ps, n - 1)
         \o RecordsOf(violation_dict(ps[n], Len(ps[n])))

\* result.as_records() is called
AsRecords ==
    /\ pc = "result"
    /\ records' = as_records(paths, Len(paths))
    /\ pc' = "records_done"
    /\ UNCHANGED <<paths, all_stats, ignore_vars, walk_vars, filter_vars,
                   batch_vars,
                   path, suffix, disk, file_mask, locals, result, exc,
                   written, history, lint_vars>>

NextResult ==
    \/ AddPath
    \/ Stats
    \/ AsRecords

SpecResult == InitResult /\ [][NextResult]_vars

\* the violations of a file that count: not flagged as ignored and not
\* named by an entry of the ignore mask of the file
Counted(f) ==
    {n \in 1..Len(f.violations) :
        LET v == f.violations[n]
        IN  /\ ~v.ignore
            /\ \A m \in 1..Len(f.ignore_mask) :
                   ~(/\ v.line = f.ignore_mask[m][1]
                     /\ \/ f.ignore_mask[m][2] = None
                        \/ \E c \in 1..Len(f.ignore_mask[m][2]) :
                               f.ignore_mask[m][2][c] = v.code)}

\* C22: stats gives exit code 65 and status FAIL exactly when some file
\* of some path of the result has a violation that counts, and exit code 0
\* and status PASS otherwise, a result without files included.
C22_ExitCode ==
    pc = "stats_done" =>
        LET violated == \E p \in 1..Len(paths) : \E i \in 1..Len(paths[p]) :
                            Counted(paths[p][i]) # {}
        IN  /\ violated =>
                /\ all_stats.exit_code = 65
                /\ all_stats.status = "FAIL"
            /\ ~violated =>
                /\ all_stats.exit_code = 0
                /\ all_stats.status = "PASS"

\* a result of two paths whose only violations that count are in the
\* second file of the second path fails; its first path has a file whose
\* violations are all flagged or masked
C22_Witness ==
    /\ pc = "stats_done"
    /\ Len(paths) = 2
    /\ Len(paths[1]) = 1
    /\ paths[1][1].violations # <<>>
    /\ Counted(paths[1][1]) = {}
    /\ Len(paths[2]) = 2
    /\ Counted(paths[2][1]) = {}
    /\ Counted(paths[2][2]) # {}
    /\ all_stats.exit_code = 65
    /\ all_stats.status = "FAIL"
    /\ all_stats.violations = Cardinality(Counted(paths[2][2]))

\* the files of the result that have a violation that counts, as
\* <<number of the path, number of the file in the path>>
ViolatedFiles ==
    {pf \in (1..Len(paths)) \X (1..NumFiles) :
        /\ pf[2] <= Len(paths[pf[1]])
        /\ Counted(paths[pf[1]][pf[2]]) # {}}

\* the place of such a file among them, in the order of the paths and of
\* the files in each path
PlaceOf(pf) ==
    1 + Cardinality({qf \in ViolatedFiles :
                        \/ qf[1] < pf[1]
                        \/ qf[1] = pf[1] /\ qf[2] < pf[2]})

\* C23: as_records gives one record for each linted file with a violation
\* that counts, in the order of the paths and of their files, and none for
\* the other files, so the empty list when no file has one; the record has
\* the path of the file and its violations that count, in their order.  A
\* file linted under two paths has a record for each.
C23_RecordPerViolatedFile ==
    pc = "records_done" =>
        /\ Len(records) = Cardinality(ViolatedFiles)
        /\ \A pf \in ViolatedFiles :
               LET f == paths[pf[1]][pf[2]]
                   record == records[PlaceOf(pf)]
               IN  /\ record.filepath = f.path
                   /\ Len(record.violations) = Cardinality(Counted(f))
                   /\ \A n \in Counted(f) :
                          record.violations[
                              1 + Cardinality({m \in Counted(f) : m < n})]
                          = [code |-> f.violations[n].code,
                             line_no |-> f.violations[n].line]

\* the file f.s was linted under two paths: it has two records, each with
\* its two violations that count, in order; the file between them, whose
\* violations do not count, has none
C23_Witness ==
    /\ pc = "records_done"
    /\ Len(paths) = 2
    /\ Len(paths[1]) = 2
    /\ Len(paths[2]) = 1
    /\ paths[1][1].path = paths[2][1].path
    /\ paths[1][2].violations # <<>>
    /\ Len(paths[2][1].violations) = 3
    /\ Len(records) = 2
    /\ records[1].filepath = paths[1][1].path
    /\ records[2].filepath = paths[1][1].path
    /\ records[1].violations = <<[code |-> "L001", line_no |-> 2],
                                 [code |-> "PRS", line_no |-> 1]>>
    /\ records[2].violations = records[1].violations

(***************************************************************************)
(* lint_string as a whole: parse_string may have given no tree, and the    *)
(* LintedFile is built at the end, after which fix_string can be called on *)
(* it.  The text of tree number k is k characters long, so that different  *)
(* trees have different texts; the string linted is the text of tree 1.    *)
(***************************************************************************)
TextOf(tree) == [i \in 1..tree |-> "a"]

\* parse_string has returned None for the tree: nothing is linted
InitLintNoTree ==
    /\ pc = "lint_start"
    /\ fix \in BOOLEAN
    /\ parsed = NoTree
    /\ working = 1
    /\ previous_versions = {}
    /\ last_fixes = NoFixes
    /\ changed = FALSE
    /\ crawler = 1
    /\ passes = 0
    /\ warnings = 0
    /\ vs \in Upstream
    /\ linting_errors = <<>>
    /\ initial_linting_errors = <<>>
    /\ aliased = FALSE
    /\ original = [tree |-> parsed, vs |-> vs]
    /\ trail = <<>>
    /\ event = "none"
    /\ proposal = NoFixes
    /\ pass_accepted = NoFixes
    /\ attempted = NoFixes
    /\ proposals = {}
    /\ IdleFile
    /\ NoCalls
    /\ path = Paths[1]
    /\ suffix = <<>>
    /\ disk = <<>>

InitLintString == InitLint \/ InitLintNoTree

\* if parsed: is false twice (lines 671 and 684): no comment is looked
\* at, no rule is run and the fix loop is not entered
LintNoTree ==
    /\ pc = "lint_start"
    /\ ~Truthy(parsed)
    /\ pc' = "linted"
    /\ UNCHANGED <<lint_vars, file_vars>>

\* templ_buff: None, or parsed.raw of the tree as first parsed
templ_buff == IF Truthy(original.tree) THEN TextOf(original.tree) ELSE None

\* fixed_buff: None, or parsed.raw of the tree at the end
fixed_buff == IF Truthy(original.tree) THEN TextOf(parsed) ELSE None

\* file_mask = (raw_buff, templ_buff, fixed_buff); the LintedFile is built
\* and returned, and fix_string can be called on it
ReturnLintedFile ==
    /\ pc = "linted"
    /\ file_mask' = <<TextOf(1), templ_buff, fixed_buff>>
    /\ pc' = "start"
    /\ UNCHANGED <<lint_vars, diff_templ_codes, diff_fix_codes, templ_block,
                   fixed_block, idx, write_buff, loop_idx, result, exc,
                   written, applied, skipped, emitted, filter_vars,
                   result_vars, ignore_vars, walk_vars, batch_vars, path,
                   suffix, disk>>

NextLintString ==
    \/ NextLint
    \/ LintNoTree
    \/ ReturnLintedFile
    \/ FixStringStart

SpecLintString == InitLintString /\ [][NextLintString]_vars

\* C24: when parse_string gave no tree, lint_string runs no rule and no
\* pass of the fix loop, keeps the violations of parse_string as the
\* violations of the file, raises nothing and returns a LintedFile whose
\* templated and fixed texts are None; fix_string on that file returns
\* (None, False) without raising.
C24_NoTreeNoLinting ==
    original.tree = NoTree =>
        /\ pc \in {"lint_start", "linted", "start", "returned"}
        /\ passes = 0
        /\ event = "none"
        /\ trail = <<>>
        /\ linting_errors = <<>>
        /\ vs = original.vs
        /\ exc = ""
        /\ pc \in {"start", "returned"} =>
               /\ file_mask[1] # None
               /\ file_mask[2] = None
               /\ file_mask[3] = None
        /\ pc = "returned" => result = <<None, FALSE>>

\* a string that gave a violation and no tree was linted in fix mode, and
\* fix_string was called on the file returned
C24_Witness ==
    /\ original.tree = NoTree
    /\ original.vs # <<>>
    /\ fix
    /\ pc = "returned"
    /\ vs = original.vs
    /\ file_mask = <<TextOf(1), None, None>>
    /\ result = <<None, FALSE>>

(***************************************************************************)
(* The ignore directives of a file: lint_string looks at the inline        *)
(* comments of the tree, of which a line has at most one, and hands each   *)
(* to extract_ignore_from_comment.  A comment is the text raw_trimmed()    *)
(* gives, a sequence of characters.                                        *)
(***************************************************************************)
Marker == <<"n", "o", "q", "a">>

\* what a comment begins with, and the characters of the rest of it
CommentStarts ==
    {<<>>, Marker, <<"N", "O", "Q", "A">>, <<" ">> \o Marker}
CommentAlphabet == {":", ",", "a", " "}

Comments ==
    {start \o rest : start \in CommentStarts,
                     rest \in Texts(CommentAlphabet, MaxLen)}

\* str.strip(), of blanks
RECURSIVE lstrip(_)
lstrip(s) == IF s # <<>> /\ Head(s) = " " THEN lstrip(Tail(s)) ELSE s

RECURSIVE rstrip(_)
rstrip(s) ==
    IF s # <<>> /\ s[Len(s)] = " "
    THEN rstrip(SubSeq(s, 1, Len(s) - 1))
    ELSE s

strip(s) == rstrip(lstrip(s))

\* the lower case of the letters of the marker
Lower(c) ==
    CASE c = "N" -> "n"
      [] c = "O" -> "o"
      [] c = "Q" -> "q"
      [] c = "A" -> "a"
      [] OTHER -> c

\* a comparison that takes upper case for lower case
startswith_any_case(s, prefix) ==
    /\ Len(s) >= Len(prefix)
    /\ [i \in 1..Len(prefix) |-> Lower(s[i])] = prefix

\* str.startswith(prefix)
startswith(s, prefix) ==
    /\ Len(s) >= Len(prefix)
    /\ SubSeq(s, 1, Len(prefix)) = prefix

\* str.split(sep): the list of the parts between the separators, one part
\* more than there are separators
RECURSIVE split(_, _)
split(s, sep) ==
    IF \E i \in 1..Len(s) : s[i] = sep
    THEN LET i == CHOOSE k \in 1..Len(s) :
                      /\ s[k] = sep
                      /\ \A j \in 1..(k - 1) : s[j] # sep
         IN  <<SubSeq(s, 1, i - 1)>> \o split(SubSeq(s, i + 1, Len(s)), sep)
    ELSE <<s>>

\* tuple(rules): a tuple, told from None by its first component
PyTuple(list) == <<"tuple">> \o list

\* SQLParseError("Malformed 'noqa' section. ...", segment=comment)
MalformedNoqa(line_no) ==
    <<"SQLParseError", "Malformed 'noqa' section. Expected 'noqa: <rule>[,...]",
      line_no>>

\* isinstance(ignore_entry, SQLParseError)
IsParseError(entry) == Len(entry) = 3

extract_ignore_from_comment(text, line_no) ==
    LET comment_content == strip(text)
    IN  IF startswith(comment_content, Marker)
        THEN LET comment_remainder ==
                     SubSeq(comment_content, 5, Len(comment_content))
             IN  IF comment_remainder # <<>>
                 THEN IF ~startswith(comment_remainder, <<":">>)
                      THEN MalformedNoqa(line_no)
                      ELSE LET parts == split(Tail(comment_remainder), ",")
                               rules == [i \in 1..Len(parts) |->
                                            strip(parts[i])]
                           IN  <<line_no, PyTuple(rules)>>
                 ELSE <<line_no, None>>
        ELSE None

\* lint_string has a tree and is about to look at its inline comments;
\* ignore_buff = []
InitIgnore ==
    /\ pc = "ignore_next"
    /\ IdleFile
    /\ IdleLint
    /\ NoCalls
    /\ path = Paths[1]
    /\ suffix = <<>>
    /\ disk = <<>>

\* one turn of the for loop, on the inline comment of the next line that
\* has one: a parse error goes to vs, a mask entry to ignore_buff
NextComment ==
    /\ pc = "ignore_next"
    /\ comment_no + 1 \in Lines
    /\ \E text \in Comments :
           LET entry == extract_ignore_from_comment(text, comment_no + 1)
           IN  /\ comment' = text
               /\ comment_no' = comment_no + 1
               /\ ignore_entry' = entry
               /\ IF IsParseError(entry)
                  THEN /\ vs' = Append(vs, entry)
                       /\ UNCHANGED ignore_buff
                  ELSE IF entry # None
                  THEN /\ ignore_buff' = Append(ignore_buff, entry)
                       /\ UNCHANGED vs
                  ELSE UNCHANGED <<vs, ignore_buff>>
    /\ UNCHANGED <<pc, fix, parsed, working, previous_versions, last_fixes,
                   changed, crawler, passes, warnings, linting_errors,
                   initial_linting_errors, aliased, lint_history, file_mask,
                   locals, result, exc, written, history, filter_vars,
                   result_vars, walk_vars, batch_vars, path, suffix, disk>>

\* no inline comment is left
CommentsDone ==
    /\ pc = "ignore_next"
    /\ pc' = "ignore_done"
    /\ UNCHANGED <<lint_vars, file_vars>>

NextIgnore ==
    \/ NextComment
    \/ CommentsDone

SpecIgnore == InitIgnore /\ [][NextIgnore]_vars

\* the characters of a text that are neither blanks nor commas
Letters(s) == SelectSeq(s, LAMBDA c : c \notin {" ", ","})

\* the texts of a list, one after the other
RECURSIVE Joined(_)
Joined(list) ==
    IF list = <<>> THEN <<>> ELSE Head(list) \o Joined(Tail(list))

\* C25: for each inline comment, with content its text without the blanks
\* around it, exactly one of four things is returned.  Content that does
\* not begin with noqa in lower case: nothing, and neither list changes.
\* Content noqa alone: (line, None), appended to the mask.  Content noqa,
\* a colon and a rest: (line, rules), appended to the mask, the rules being
\* the parts of the rest between its commas without the blanks around
\* them.  Content noqa and a rest that does not begin with a colon: a
\* parse error, appended to the violations, the mask left as it is; and
\* the loop goes on to the next comment.
C25_IgnoreDirective ==
    [][(pc = "ignore_next" /\ comment_no' = comment_no + 1) =>
          LET content == strip(comment')
              line_no == comment_no'
              marked == /\ Len(content) >= 4
                        /\ SubSeq(content, 1, 4) = Marker
              rest == SubSeq(content, 6, Len(content))
          IN  /\ ~marked =>
                     /\ ignore_entry' = None
                     /\ ignore_buff' = ignore_buff
                     /\ vs' = vs
              /\ (marked /\ Len(content) = 4) =>
                     /\ ignore_entry' = <<line_no, None>>
                     /\ ignore_buff' = Append(ignore_buff, ignore_entry')
                     /\ vs' = vs
              /\ (marked /\ Len(content) > 4 /\ content[5] = ":") =>
                     /\ Len(ignore_entry') = 2
                     /\ ignore_entry'[1] = line_no
                     /\ LET rules == Tail(ignore_entry'[2])
                        IN  /\ ignore_entry'[2] # None
                            /\ Len(rules) =
                                   1 + Cardinality({i \in 1..Len(rest) :
                                                       rest[i] = ","})
                            /\ \A i \in 1..Len(rules) :
                                   /\ strip(rules[i]) = rules[i]
                                   /\ \A c \in 1..Len(rules[i]) :
                                          rules[i][c] # ","
                            /\ Letters(Joined(rules)) = Letters(rest)
                     /\ ignore_buff' = Append(ignore_buff, ignore_entry')
                     /\ vs' = vs
              /\ (marked /\ Len(content) > 4 /\ content[5] # ":") =>
                     /\ ignore_entry' = MalformedNoqa(line_no)
                     /\ vs' = Append(vs, ignore_entry')
                     /\ ignore_buff' = ignore_buff
                     /\ pc' = "ignore_next"
    ]_vars

\* the comment of line 1 was malformed and gave a parse error and no mask
\* entry; the loop went on, and the comment of line 2, a blank, noqa, a
\* colon and two rules, gave the only entry of the mask
C25_Witness ==
    /\ pc = "ignore_done"
    /\ comment_no = 2
    /\ vs = <<MalformedNoqa(1)>>
    /\ comment = <<" ">> \o Marker \o <<":", "a", ",">>
    /\ ignore_buff = << <<2, <<"tuple", <<"a">>, <<>>>>>> >>

\* the fix blocks not yet consumed at the start of an iteration: the one
\* held, if any, and those still in the list
RemainingFixes ==
    (IF fixed_block # None THEN <<fixed_block>> ELSE <<>>) \o diff_fix_codes

\* C26: an iteration of the write loop returns exactly when the template
\* blocks are used up and every fix block that remains is an insert, and
\* the output is then what was written followed by the fixed-side texts of
\* those inserts in order; with the template used up and another fix block
\* remaining, or with the fixes used up and a template block other than a
\* delete at hand, the iteration raises and there is no output.
C26_Termination ==
    [][pc = "loop" =>
          /\ pc' = "returned" <=>
                 (TemplExhausted /\ AllInserts(RemainingFixes))
          /\ pc' = "returned" =>
                 result'[1] =
                     write_buff \o FlushText(RemainingFixes, fixed_file)
          /\ (TemplExhausted /\ ~AllInserts(RemainingFixes)) =>
                 (pc' = "raised" /\ result' = None)
          /\ (~TemplExhausted /\ RemainingFixes = <<>>
                /\ Tag(curr_templ) # "delete") =>
                 (pc' = "raised" /\ result' = None)
    ]_vars

\* C27: with an equal template block and a replace fix block at hand, the
\* iteration applies the replace only if the replace ends, on the templated
\* side, no later than the template block: it then writes the fixed-side
\* text of the replace, moves the templated and the fixed cursor to the
\* ends of the replace and consumes the fix block; if the replace ends
\* later the iteration raises and there is no output.
C27_ReplaceInEqual ==
    [][(InBranch("equal") /\ Tag(curr_fix) = "replace") =>
          IF curr_fix[3] <= curr_templ[5]
          THEN /\ pc' = "loop"
               /\ write_buff' =
                      write_buff \o Slice(fixed_file, curr_fix[4], curr_fix[5])
               /\ idx'[2] = curr_fix[3]
               /\ idx'[3] = curr_fix[5]
               /\ fixed_block' = None
               /\ diff_fix_codes' = rest_fix
               /\ curr_fix \in applied'
          ELSE /\ pc' = "raised"
               /\ result' = None
               /\ write_buff' = write_buff
    ]_vars

\* a replace that ends inside the equal template block of a longer text
\* was applied, and fix_string has returned the fixed text
C27_Witness ==
    /\ pc = "returned"
    /\ raw_file = templated_file
    /\ \E block \in applied :
           /\ Tag(block) = "replace"
           /\ block[3] < Len(templated_file)
    /\ result = <<fixed_file, TRUE>>

\* C28: with an insert template block at hand, the iteration writes
\* nothing and moves the templated and the fixed cursor, and no other, by
\* the length of the inserted text, and does so only if the fix block at
\* hand is an equal that ends, on the templated side, no earlier than the
\* insert; with any other fix block, or none, it raises and there is no
\* output.
C28_TemplateInsert ==
    [][(pc = "loop" /\ ~TemplExhausted /\ Tag(curr_templ) = "insert") =>
          IF /\ curr_fix # None
             /\ Tag(curr_fix) = "equal"
             /\ curr_fix[3] >= curr_templ[5]
          THEN LET inserted == curr_templ[5] - curr_templ[4]
               IN  /\ pc' = "loop"
                   /\ write_buff' = write_buff
                   /\ idx' = <<idx[1], idx[2] + inserted, idx[3] + inserted>>
                   /\ templ_block' = None
                   /\ diff_templ_codes' = rest_templ
          ELSE /\ pc' = "raised"
               /\ result' = None
    ]_vars

\* the template inserted a character between two that the fixes left
\* alone: nothing was written for it, and fix_string returned the raw text
C28_Witness ==
    /\ pc = "returned"
    /\ Len(raw_file) = 2
    /\ Len(templated_file) = 3
    /\ fixed_file = templated_file
    /\ \E k \in 1..Len(get_opcodes(raw_file, templated_file)) :
           /\ get_opcodes(raw_file, templated_file)[k][1] = "insert"
           /\ get_opcodes(raw_file, templated_file)[k][4] = 1
    /\ result = <<raw_file, FALSE>>

\* the fix blocks an iteration can look at, the one at hand first
FixesAhead == IF curr_fix = None THEN <<>> ELSE <<curr_fix>> \o rest_fix

\* C29: with a replace template block at hand whose end, on the templated
\* side, is inside a fix block and not at its start, the iteration goes on
\* only if that fix block is an equal, and then sets the fixed cursor as
\* far behind the fixed-side start of the equal as the end is behind its
\* templated-side start; if that fix block is not an equal the iteration
\* raises and there is no output.
C29_LandingPoint ==
    [][InBranch("replace") =>
          \A k \in 1..Len(FixesAhead) :
              LET end == curr_templ[5]
                  block == FixesAhead[k]
              IN  (/\ block[2] < end
                   /\ end < block[3]
                   /\ \A j \in 1..(k - 1) :
                          ~(FixesAhead[j][2] <= end /\ end < FixesAhead[j][3]))
                  => IF Tag(block) = "equal"
                     THEN /\ pc' = "loop"
                          /\ idx'[2] = end
                          /\ idx'[3] = block[4] + (end - block[2])
                          /\ fixed_block' = block
                     ELSE /\ pc' = "raised"
                          /\ result' = None
    ]_vars

\* a replace template block ended inside an equal fix block, one character
\* behind its start, and fix_string went on and returned
C29_Witness ==
    /\ pc = "returned"
    /\ \E pair \in emitted :
           /\ Tag(pair[1]) = "replace"
           /\ \E k \in 1..Len(get_opcodes(templated_file, fixed_file)) :
                  LET block == get_opcodes(templated_file, fixed_file)[k]
                  IN  /\ Tag(block) = "equal"
                      /\ block[2] < pair[1][5]
                      /\ pair[1][5] < block[3]

\* every rule has been crawled in the pass that is ending: the latest
\* violations of the loop are those of rules 1 to NumRules, in order
CompletePass ==
    /\ crawler = NumRules + 1
    /\ Len(linting_errors) = passes * NumRules
    /\ \A k \in 1..NumRules :
           linting_errors[Len(linting_errors) - NumRules + k][1] = k

\* C30: the fix loop is left only at the end of a pass in which every rule
\* was crawled and no edit was accepted; at the end of a pass in which an
\* edit was accepted the loop is not left but another pass begins, with
\* the first rule, and a pass that has begun crawls one rule after the
\* other up to the last before it ends.
C30_ExitAfterCleanPass ==
    /\ [](pc = "fix_pass" => passes < MaxPasses)
    /\ [][/\ (fix /\ pc # "linted" /\ pc' = "linted") =>
                 /\ pc = "fix_pass_end"
                 /\ CompletePass
                 /\ pass_accepted = NoFixes
          /\ (pc = "fix_pass_end" /\ pass_accepted # NoFixes) =>
                 /\ CompletePass
                 /\ pc' = "fix_pass"
          /\ pc = "fix_pass" =>
                 /\ pc' = "fix_rule"
                 /\ crawler' = 1
                 /\ passes' = passes + 1
          /\ pc = "fix_rule" =>
                 /\ linting_errors'[Len(linting_errors) + 1][1] = crawler
                 /\ crawler' = crawler + 1
                 /\ pc' = IF crawler = NumRules
                          THEN "fix_pass_end" ELSE "fix_rule"
       ]_vars

\* the loop was left after a third pass without an accepted edit; edits
\* were accepted in the two passes before
C30_Witness ==
    /\ pc = "linted"
    /\ fix
    /\ passes = 3
    /\ Len(trail) = 3
    /\ pass_accepted = NoFixes
    /\ Len(linting_errors) = 3 * NumRules

(***************************************************************************)
(* The order of the rules in the fix loop.  In fix mode linting_errors is  *)
(* emptied before the loop (line 702) and every crawl appends what the     *)
(* rule reported, <<rule, tree it was given>>, so the list is the record   *)
(* of the evaluations made in the loop.                                    *)
(***************************************************************************)
\* the loop of a fix run is under way or over
InFixLoop == fix /\ pc \in {"fix_pass", "fix_rule", "fix_pass_end", "linted"}

\* a crawl of the fix loop
CrawlStep == pc = "fix_rule" /\ linting_errors' # linting_errors

\* C31: within a pass the rules are evaluated one at a time in the order of
\* the rule list, and each rule is evaluated against the working tree that
\* holds every edit accepted before it, in the same pass and in the passes
\* before: the tree of the latest acceptance.
C31_SequentialRules ==
    /\ [](InFixLoop =>
              /\ working = trail[Len(trail)]
              /\ \A k \in 1..Len(linting_errors) :
                     linting_errors[k][1] = ((k - 1) % NumRules) + 1
              /\ pc = "fix_rule" =>
                     /\ crawler \in Rules
                     /\ Len(linting_errors) =
                            (passes - 1) * NumRules + crawler - 1)
    /\ [][CrawlStep =>
              /\ Len(linting_errors') = Len(linting_errors) + 1
              /\ linting_errors'[Len(linting_errors')] =
                     <<crawler, trail[Len(trail)]>>
              /\ crawler' = crawler + 1
              /\ \/ trail' = trail
                 \/ /\ event' = "accept"
                    /\ Len(trail') = Len(trail) + 1
                    /\ working' = trail'[Len(trail')]]_vars

\* the second rule of the first pass has seen the tree the first rule left,
\* and the first rule of the second pass the tree the first pass left
C31_Witness ==
    /\ fix
    /\ passes = 2
    /\ linting_errors = << <<1, 1>>, <<2, 2>>, <<1, 3>> >>
    /\ trail = <<1, 2, 3>>

(***************************************************************************)
(* Linter.paths_from_path.  A path is a string of characters as Python     *)
(* has it; the storage is the working directory /w with the file q.s and   *)
(* the directory d, which holds q.s, r.s and n.t; either directory may     *)
(* hold an ignore file .i.  A place on the storage is the sequence of the  *)
(* names that lead to it from the working directory.  No path of the       *)
(* model has a ".." in it.                                                 *)
(***************************************************************************)
\* Path.cwd()
current_dir == <<"/", "w">>

\* the argument ignore_file_name ('.sqlfluffignore' by default)
ignore_file_name == <<".", "i">>

\* the directories of the storage
DiskDirs == {<<>>, << <<"d">> >>}

\* the files of the storage that are no ignore files
SourceFiles ==
    { << <<"q", ".", "s">> >>,
      << <<"d">>, <<"q", ".", "s">> >>,
      << <<"d">>, <<"r", ".", "s">> >>,
      << <<"d">>, <<"n", ".", "t">> >> }

\* the files of the storage
DiskFiles ==
    SourceFiles
        \cup {dir \o <<ignore_file_name>> : dir \in DOMAIN ignore_specs}

\* the lines an ignore file can have: patterns that are plain file names
PatternSets == {{}, {<<"q", ".", "s">>}, {<<"q", ".", "s">>, <<"r", ".", "s">>}}

\* the storage as it can be: any of the directories holds an ignore file
IgnoreSpecs == UNION {[dirs -> PatternSets] : dirs \in SUBSET DiskDirs}

\* the names of a path that say where it leads: "" and "." say nothing
Names(s) == SelectSeq(split(s, "/"), LAMBDA name : name \notin {<<>>, <<".">>})

\* the place a path string leads to, from the working directory if it is
\* relative; an absolute path of the model lies in the working directory
Place(s) ==
    IF startswith(s, current_dir \o <<"/">>) \/ s = current_dir
    THEN Tail(Names(s))
    ELSE Names(s)

\* os.path.exists(path), os.path.isdir(path)
exists(s) == s # <<>> /\ Place(s) \in DiskDirs \cup DiskFiles
isdir(s) == s # <<>> /\ Place(s) \in DiskDirs

\* s.rstrip('/')
RECURSIVE rstrip_slash(_)
rstrip_slash(s) ==
    IF s # <<>> /\ s[Len(s)] = "/"
    THEN rstrip_slash(SubSeq(s, 1, Len(s) - 1))
    ELSE s

\* os.path.dirname(p): up to the last "/", without the slashes at its end
\* unless it is slashes only
dirname(p) ==
    LET head == SubSeq(p, 1, RFind(p, "/"))
    IN  IF rstrip_slash(head) # <<>> THEN rstrip_slash(head) ELSE head

\* os.path.basename(p): what follows the last "/"
basename(p) == SubSeq(p, RFind(p, "/") + 1, Len(p))

\* s.endswith(ending)
endswith(s, ending) ==
    /\ Len(s) >= Len(ending)
    /\ SubSeq(s, Len(s) - Len(ending) + 1, Len(s)) = ending

\* os.path.join(a, b)
join(a, b) ==
    IF startswith(b, <<"/">>) THEN b
    ELSE IF a = <<>> \/ endswith(a, <<"/">>) THEN a \o b
    ELSE a \o <<"/">> \o b

\* '/'.join(names)
RECURSIVE JoinNames(_)
JoinNames(names) ==
    IF names = <<>> THEN <<>>
    ELSE IF Len(names) = 1 THEN names[1]
    ELSE names[1] \o <<"/">> \o JoinNames(Tail(names))

\* the slashes a normalised path begins with: two stay two, any other
\* number of them is one
InitialSlashes(s) ==
    IF ~startswith(s, <<"/">>) THEN <<>>
    ELSE IF startswith(s, <<"/", "/">>) /\ ~startswith(s, <<"/", "/", "/">>)
    THEN <<"/", "/">>
    ELSE <<"/">>

\* os.path.normpath(path): the empty names and the "." names are dropped
normpath(s) ==
    LET normed == InitialSlashes(s) \o JoinNames(Names(s))
    IN  IF normed = <<>> THEN <<".">> ELSE normed

\* str(Path(s)): pathlib drops the empty names and the "." names as it
\* reads the string
PathStr(s) == normpath(s)

\* Path(s).parent, as a string
PathParent(s) ==
    LET names == Names(s)
        upper == InitialSlashes(s)
                     \o JoinNames(SubSeq(names, 1, Len(names) - 1))
    IN  IF upper = <<>> THEN <<".">> ELSE upper

\* Path(s).parents, as strings, nearest first
RECURSIVE PathParents(_)
PathParents(s) ==
    IF PathParent(s) = PathStr(s) THEN <<>>
    ELSE <<PathParent(s)>> \o PathParents(PathParent(s))

\* str(Path(a) / b)
PathJoin(a, b) == PathStr(join(a, b))

\* whether place lies in the directory at dir or below it
Below(dir, place) ==
    /\ Len(place) > Len(dir)
    /\ SubSeq(place, 1, Len(dir)) = dir

\* spec.match_tree(dirpath) for the lines of the ignore entry of dirpath:
\* the files in the directory and below it whose name is one of the lines,
\* as paths relative to the directory
match_tree(dirpath) ==
    LET dir == Place(dirpath)
    IN  { JoinNames(SubSeq(entry, Len(dir) + 1, Len(entry))) :
              entry \in { f \in DiskFiles :
                             /\ Below(dir, f)
                             /\ dir \in DOMAIN ignore_specs
                             /\ f[Len(f)] \in ignore_specs[dir] } }

\* the directories _get_potential_ignore_file_locations_for_file looks
\* into: the parents of the file up to current_dir if current_dir is one
\* of them, and the direct parent of the file if not
PotentialDirs(p) ==
    IF \E k \in 1..Len(PathParents(p)) : PathParents(p)[k] = current_dir
    THEN LET relative == JoinNames(Place(p))
         IN  { PathJoin(current_dir, PathParents(relative)[k]) :
                   k \in 1..Len(PathParents(relative)) }
    ELSE {PathParent(p)}

\* _get_potential_ignore_file_locations_for_file(path): what the ignore
\* files of these directories match, as str(abs_dir / m)
potential_ignore_file_locations(p) ==
    UNION { { PathJoin(abs_dir, m) : m \in match_tree(abs_dir) } :
                abs_dir \in PotentialDirs(p) }

\* os.walk(top): the directories from top downwards with the names of
\* their files, here as the set of the <<dirpath, fname>> pairs
os_walk(top) ==
    { <<IF Len(entry) - 1 = Len(Place(top)) THEN top
        ELSE join(top, JoinNames(SubSeq(entry, Len(Place(top)) + 1,
                                        Len(entry) - 1))),
        entry[Len(entry)]>> :
          entry \in { f \in DiskFiles : Below(Place(top), f) } }

\* the code of a character (ord)
ord(c) ==
    CASE c = "." -> 46 [] c = "/" -> 47 [] c = "d" -> 100 [] c = "i" -> 105
      [] c = "n" -> 110 [] c = "q" -> 113 [] c = "r" -> 114 [] c = "s" -> 115
      [] c = "t" -> 116 [] c = "w" -> 119

\* a < b for strings
RECURSIVE StrLess(_, _)
StrLess(a, b) ==
    IF b = <<>> THEN FALSE
    ELSE IF a = <<>> THEN TRUE
    ELSE IF Head(a) # Head(b) THEN ord(Head(a)) < ord(Head(b))
    ELSE StrLess(Tail(a), Tail(b))

\* the list with one more string, put before the first string greater
\* than it
RECURSIVE Insort(_, _)
Insort(list, s) ==
    IF list = <<>> THEN <<s>>
    ELSE IF StrLess(s, Head(list)) THEN <<s>> \o list
    ELSE <<Head(list)>> \o Insort(Tail(list), s)

\* sorted(list)
RECURSIVE sorted(_)
sorted(list) ==
    IF list = <<>> THEN <<>>
    ELSE Insort(sorted(SubSeq(list, 1, Len(list) - 1)), list[Len(list)])

\* the paths given to paths_from_path: files and directories, spelt in
\* several ways, and a path that does not exist
WalkPaths ==
    { <<"d", "/", "q", ".", "s">>, <<".", "/", "d", "/", "q", ".", "s">>,
      <<"d", "/", "/", "q", ".", "s">>, <<"d", "/", "r", ".", "s">>,
      <<"d", "/", "n", ".", "t">>, <<"q", ".", "s">>,
      <<".", "/", "q", ".", "s">>,
      <<"/", "w", "/", "d", "/", "q", ".", "s">>,
      <<"d">>, <<"d", "/">>, <<".", "/", "d">>, <<".">>, <<"/", "w">>,
      <<"n", ".", "t">> }

\* self.sql_exts as it can be configured
SqlExts == { << <<".", "s">> >>, << <<".", "s">>, <<".", "t">> >> }

\* paths_from_path is called
InitPaths ==
    /\ pc = "paths_start"
    /\ ignore_specs \in IgnoreSpecs
    /\ walk_path \in WalkPaths
    /\ ignore_files \in BOOLEAN
    /\ ignore_non_existent_files \in BOOLEAN
    /\ sql_exts \in SqlExts
    /\ is_exact_file = FALSE
    /\ ignore_set = {}
    /\ path_walk = {}
    /\ walk_buffer = <<>>
    /\ buffer_no = 0
    /\ filtered_buffer = <<>>
    /\ warned = 0
    /\ found = <<>>
    /\ IdleResult
    /\ IdleIgnore
    /\ violations = <<>>
    /\ ignore_mask = <<>>
    /\ kwargs = DefaultKwargs
    /\ selected = <<>>
    /\ files = <<>>
    /\ file_no = 0
    /\ buffer = <<>>
    /\ dispatched = <<>>
    /\ fixed_file_suffix = <<>>
    /\ path = Paths[1]
    /\ suffix = <<>>
    /\ disk = <<>>
    /\ IdleFile
    /\ IdleLint

\* what paths_from_path leaves alone
walk_frame == <<lint_vars, file_mask, locals, result, exc, written, history,
                filter_vars, result_vars, ignore_vars, batch_vars, path,
                suffix, disk, walk_args>>

\* the path does not exist, and that is to be passed over: return []
MissingReturn ==
    /\ pc = "paths_start"
    /\ ~exists(walk_path)
    /\ ignore_non_existent_files
    /\ found' = <<>>
    /\ pc' = "paths_returned"
    /\ UNCHANGED <<walk_frame, is_exact_file, ignore_set, path_walk,
                   walk_buffer, buffer_no, filtered_buffer, warned>>

\* the path does not exist: raise IOError
MissingRaise ==
    /\ pc = "paths_start"
    /\ ~exists(walk_path)
    /\ ~ignore_non_existent_files
    /\ pc' = "paths_raised"
    /\ UNCHANGED <<walk_frame, is_exact_file, ignore_set, path_walk,
                   walk_buffer, buffer_no, filtered_buffer, warned, found>>

\* the path is a file: the walk is that file alone, and the ignore files
\* of its parents are read at once
ExactFile ==
    /\ pc = "paths_start"
    /\ exists(walk_path)
    /\ ~isdir(walk_path)
    /\ is_exact_file' = TRUE
    /\ path_walk' = {<<dirname(walk_path), basename(walk_path)>>}
    /\ ignore_set' = potential_ignore_file_locations(walk_path)
    /\ pc' = "paths_walk"
    /\ UNCHANGED <<walk_frame, walk_buffer, buffer_no, filtered_buffer,
                   warned, found>>

\* the path is a directory: os.walk
Directory ==
    /\ pc = "paths_start"
    /\ exists(walk_path)
    /\ isdir(walk_path)
    /\ is_exact_file' = FALSE
    /\ path_walk' = os_walk(walk_path)
    /\ ignore_set' = {}
    /\ pc' = "paths_walk"
    /\ UNCHANGED <<walk_frame, walk_buffer, buffer_no, filtered_buffer,
                   warned, found>>

\* the pairs os.walk gives next: a directory comes before those below it,
\* and the names of one directory come in any order
NextOfWalk ==
    { pair \in path_walk :
          \A other \in path_walk :
              Len(Place(pair[1])) <= Len(Place(other[1])) }

\* an ignore file is met in the walk: what it matches goes to ignore_set
WalkIgnoreFile ==
    /\ pc = "paths_walk"
    /\ \E pair \in NextOfWalk :
           /\ ignore_files /\ pair[2] = ignore_file_name
           /\ ignore_set' =
                  ignore_set \cup
                      { join(pair[1], m) : m \in match_tree(pair[1]) }
           /\ path_walk' = path_walk \ {pair}
    /\ UNCHANGED <<pc, walk_frame, is_exact_file, walk_buffer, buffer_no,
                   filtered_buffer, warned, found>>

\* for ext in self.sql_exts: if fname.endswith(ext): buffer.append(fpath)
RECURSIVE ScanExts(_, _, _)
ScanExts(exts, fname, fpath) ==
    IF exts = <<>> THEN <<>>
    ELSE (IF endswith(fname, Head(exts)) THEN <<fpath>> ELSE <<>>)
             \o ScanExts(Tail(exts), fname, fpath)

\* any other file is met in the walk: it goes to the buffer if it has one
\* of the extensions
WalkFile ==
    /\ pc = "paths_walk"
    /\ \E pair \in NextOfWalk :
           /\ ~(ignore_files /\ pair[2] = ignore_file_name)
           /\ walk_buffer' =
                  walk_buffer
                      \o ScanExts(sql_exts, pair[2], join(pair[1], pair[2]))
           /\ path_walk' = path_walk \ {pair}
    /\ UNCHANGED <<pc, walk_frame, is_exact_file, ignore_set, buffer_no,
                   filtered_buffer, warned, found>>

\* if not ignore_files: return sorted(buffer)
ReturnBuffer ==
    /\ pc = "paths_walk"
    /\ path_walk = {}
    /\ ~ignore_files
    /\ found' = sorted(walk_buffer)
    /\ pc' = "paths_returned"
    /\ UNCHANGED <<walk_frame, is_exact_file, ignore_set, path_walk,
                   walk_buffer, buffer_no, filtered_buffer, warned>>

\* the walk is over and the ignore files count: the second loop begins
FilterStart ==
    /\ pc = "paths_walk"
    /\ path_walk = {}
    /\ ignore_files
    /\ buffer_no' = 1
    /\ pc' = "paths_filter"
    /\ UNCHANGED <<walk_frame, is_exact_file, ignore_set, path_walk,
                   walk_buffer, filtered_buffer, warned, found>>

\* fpath not in ignore_set: kept, normalised
FilterKeep ==
    /\ pc = "paths_filter"
    /\ buffer_no <= Len(walk_buffer)
    /\ walk_buffer[buffer_no] \notin ignore_set
    /\ filtered_buffer' =
           Append(filtered_buffer, normpath(walk_buffer[buffer_no]))
    /\ buffer_no' = buffer_no + 1
    /\ UNCHANGED <<pc, walk_frame, is_exact_file, ignore_set, path_walk,
                   walk_buffer, warned, found>>

\* fpath in ignore_set: dropped, with a warning if the file was given by
\* its own path
FilterDrop ==
    /\ pc = "paths_filter"
    /\ buffer_no <= Len(walk_buffer)
    /\ walk_buffer[buffer_no] \in ignore_set
    /\ warned' = IF is_exact_file THEN warned + 1 ELSE warned
    /\ buffer_no' = buffer_no + 1
    /\ UNCHANGED <<pc, walk_frame, is_exact_file, ignore_set, path_walk,
                   walk_buffer, filtered_buffer, found>>

\* return sorted(filtered_buffer)
ReturnFiltered ==
    /\ pc = "paths_filter"
    /\ buffer_no > Len(walk_buffer)
    /\ found' = sorted(filtered_buffer)
    /\ pc' = "paths_returned"
    /\ UNCHANGED <<walk_frame, is_exact_file, ignore_set, path_walk,
                   walk_buffer, buffer_no, filtered_buffer, warned>>

NextPaths ==
    \/ MissingReturn
    \/ MissingRaise
    \/ ExactFile
    \/ Directory
    \/ WalkIgnoreFile
    \/ WalkFile
    \/ ReturnBuffer
    \/ FilterStart
    \/ FilterKeep
    \/ FilterDrop
    \/ ReturnFiltered

SpecPaths == InitPaths /\ [][NextPaths]_vars

\* the directory a place lies in
ParentPlace(place) == SubSeq(place, 1, Len(place) - 1)

\* the ignore files that count for the call: those of the directory given
\* and of the directories below it, and for a file given by its own path
\* the one of the directory the file lies in
IgnoreFileCounts(dir) ==
    /\ dir \in DOMAIN ignore_specs
    /\ IF isdir(walk_path)
       THEN dir = Place(walk_path) \/ Below(Place(walk_path), dir)
       ELSE dir = ParentPlace(Place(walk_path))

\* the file at place is matched by a line of an ignore file that counts
MatchedByIgnoreFile(place) ==
    \E dir \in DOMAIN ignore_specs :
        /\ IgnoreFileCounts(dir)
        /\ Below(dir, place)
        /\ place[Len(place)] \in ignore_specs[dir]

\* the file at place has one of the configured extensions
HasSqlExt(place) ==
    \E k \in 1..Len(sql_exts) : endswith(place[Len(place)], sql_exts[k])

\* the files the path stands for: the file itself, or the files in the
\* directory and below it
FilesOf(p) ==
    { f \in DiskFiles : f = Place(p) \/ (isdir(p) /\ Below(Place(p), f)) }

\* C32: with ignore_files=True paths_from_path never returns a path matched
\* by an ignore-file pattern, also when the path was given as a single file
\* (the file is dropped and a warning printed); with ignore_files=False it
\* returns every file with a configured extension whatever the ignore
\* files say; the list returned is sorted.
C32_PathsFromPath ==
    pc = "paths_returned" =>
        /\ ignore_files =>
               /\ \A k \in 1..Len(found) :
                      ~MatchedByIgnoreFile(Place(found[k]))
               /\ ( /\ exists(walk_path) /\ ~isdir(walk_path)
                    /\ HasSqlExt(Place(walk_path))
                    /\ MatchedByIgnoreFile(Place(walk_path)) ) =>
                      (found = <<>> /\ warned > 0)
        /\ ~ignore_files =>
               { Place(found[k]) : k \in 1..Len(found) } =
                   { f \in FilesOf(walk_path) : HasSqlExt(f) }
        /\ \A i, j \in 1..Len(found) :
               i < j => ~StrLess(found[j], found[i])

(***************************************************************************)
(* Termination of the write loop of fix_string.                            *)
(***************************************************************************)
\* the blocks not yet consumed: those left in the two lists and those held
\* in templ_block and fixed_block
Pending ==
    Len(diff_templ_codes) + (IF templ_block = None THEN 0 ELSE 1)
        + Len(diff_fix_codes) + (IF fixed_block = None THEN 0 ELSE 1)

\* C33: the write loop of fix_string always terminates: every iteration
\* consumes a template block or a fix block, or ends the loop, or raises,
\* so the number of iterations is at most the number of template blocks
\* plus the number of fix blocks plus one.
C33_MergeWalkTerminates ==
    /\ [](~InsufficientInformation(file_mask) =>
              loop_idx <= Len(TemplateOps) + Len(FixOps) + 1)
    /\ [](pc = "loop" =>
              loop_idx + Pending <= Len(TemplateOps) + Len(FixOps))
    /\ [][pc = "loop" =>
              /\ loop_idx' = loop_idx + 1
              /\ \/ pc' \in {"returned", "raised"}
                 \/ pc' = "loop" /\ Pending' < Pending]_vars

\* a walk that took as many iterations as there are blocks
C33_Witness ==
    /\ pc = "returned"
    /\ result[1] # None
    /\ loop_idx >= 4
    /\ loop_idx = Len(TemplateOps) + Len(FixOps)

\* C34: throughout the write loop of fix_string the cursor (raw_idx,
\* templ_idx, fixed_idx) is monotone and in range: no component decreases
\* from one iteration to the next, and each stays between 0 and the length
\* of its text.
C34_CursorMonotoneInRange ==
    /\ [](~InsufficientInformation(file_mask) =>
              \A k \in 1..3 : 0 <= idx[k] /\ idx[k] <= Len(file_mask[k]))
    /\ [][\A k \in 1..3 : idx[k] <= idx'[k]]_vars

(***************************************************************************)
(* The equal/equal branch of fix_string.                                   *)
(***************************************************************************)
\* the iteration to come is the one of an equal template block and an
\* equal fix block
AtEqualEqual ==
    /\ pc = "loop"
    /\ ~TemplExhausted
    /\ Tag(curr_templ) = "equal"
    /\ curr_fix # None
    /\ Tag(curr_fix) = "equal"

\* the text the equal/equal branch writes
EqualEqualText ==
    Slice(templated_file, idx[2], Min(curr_templ[5], curr_fix[3]))

\* C35: whenever the equal/equal branch writes templated[templ_idx :
\* templ_idx + n], the raw cursor and the fixed cursor point at the same
\* text: raw[raw_idx : raw_idx + n] and fixed[fixed_idx : fixed_idx + n]
\* both equal the text written, and templ_idx lies inside the template
\* block and inside the fix block at hand.
C35_CursorSynchronised ==
    AtEqualEqual =>
        LET n == Len(EqualEqualText)
        IN  /\ Slice(raw_file, idx[1], idx[1] + n) = EqualEqualText
            /\ Slice(fixed_file, idx[3], idx[3] + n) = EqualEqualText
            /\ curr_templ[4] <= idx[2] /\ idx[2] <= curr_templ[5]
            /\ curr_fix[2] <= idx[2] /\ idx[2] <= curr_fix[3]

\* C36: in the fix loop the text of the working tree is always among the
\* texts seen, the set of texts seen only grows, and its size is one plus
\* the number of edits accepted so far.
C36_SeenSet ==
    /\ [](InFixLoop =>
              /\ working \in previous_versions
              /\ Cardinality(previous_versions) = 1 + (Len(trail) - 1))
    /\ [][/\ previous_versions \subseteq previous_versions'
          /\ (pc = "fix_rule" /\ event' = "accept") =>
                 /\ Len(trail') = Len(trail) + 1
                 /\ previous_versions' # previous_versions
          /\ (pc = "fix_rule" /\ event' # "accept") =>
                 /\ trail' = trail
                 /\ previous_versions' = previous_versions]_vars

\* two edits were accepted and a third was turned down
C36_Witness ==
    /\ pc = "linted"
    /\ fix
    /\ Len(trail) = 3
    /\ Cardinality(previous_versions) = 3
    /\ working = 3
    /\ warnings > 0

\* the counts of a stats dict agree with each other
Consistent(s) ==
    /\ s.clean + s.unclean = s.files
    /\ (s.unclean > 0) <=> (s.violations > 0)

\* C37: for every collection of linted files the stats of each LintedPath
\* and of the LintingResult have clean + unclean = files, and the unclean
\* count is above zero exactly when the count of violations is, both being
\* taken with the same filtering of ignored violations.
C37_StatsConsistent ==
    /\ \A i \in 1..Len(paths) : Consistent(path_stats(paths[i]))
    /\ pc = "stats_done" => Consistent(all_stats)

\* stats of a result with an unclean file and with a file that is clean
\* although it has violations: all of them are ignored
C37_Witness ==
    /\ pc = "stats_done"
    /\ all_stats.unclean > 0
    /\ all_stats.clean > 0
    /\ \E i \in 1..Len(paths) : \E j \in 1..Len(paths[i]) :
           /\ is_clean(paths[i][j])
           /\ paths[i][j].violations # <<>>

====
